---------------------------- MODULE Spec2Model ----------------------------
(***************************************************************************)
(* PactGuard: a legal-document analysis backend.                           *)
(*                                                                         *)
(* Three entry points of the repository are modelled:                      *)
(*   - app/main.py serving /analyze through the module-level singleton     *)
(*     assembly_line (app/services/assembly_line.py, the second, effective *)
(*     definition of PactGuardAssemblyLine);                               *)
(*   - the Portia tools of app/services/agents/portia_tools.py;            *)
(*   - main.py serving /analyze through run_pactguard_workflow             *)
(*     (portia_workflow.py, free_ai_analysis.py, demo_analysis.py).        *)
(*                                                                         *)
(* Texts are TLA+ strings and the string functions of the code (lower,     *)
(* strip, split, slicing, substring search, formatting) are computed on    *)
(* their characters.  Times are integers, in milliseconds.                 *)
(***************************************************************************)
EXTENDS Integers, Sequences, FiniteSets, TLC

VARIABLES
    entry,              \* which entry point this process serves
    now,                \* time.time(), in ms
    uuids,              \* number of uuid4() values drawn so far
    processing_steps,   \* assembly_line.processing_steps (the singleton's attribute)
    requests,           \* number of analyze_document calls started on the singleton
    pc,                 \* position of the running call in analyze_document
    req,                \* the local variables of the running analyze_document call
    response,           \* the AnalysisResult the last finished call returned
    request_log,        \* history: the steps _add_processing_step appended during the running call
    tool_pc,            \* position of the tool chain
    tool,               \* the outputs of the Portia tools run so far
    wf,                 \* the run_pactguard_workflow request
    api,                \* the HTTP request being served and its answer
    classifications     \* history: the document classifications made so far

vars == <<entry, now, uuids, processing_steps, requests, pc, req, response,
          request_log, tool_pc, tool, wf, api, classifications>>

asmVars == <<now, uuids, processing_steps, requests, pc, req, response, request_log>>
toolVars == <<tool_pc, tool>>

None == "None"

(***************************************************************************)
(* Python string functions                                                 *)
(***************************************************************************)
CharAt(s, i) == SubSeq(s, i, i)


LowerMap ==
    LET UpperCase == "ABCDEFGHIJKLMNOPQRSTUVWXYZ"
        LowerCase == "abcdefghijklmnopqrstuvwxyz"
    IN  [c \in {CharAt(UpperCase, i) : i \in 1..26} |->
            CharAt(LowerCase, CHOOSE i \in 1..26 : CharAt(UpperCase, i) = c)]

\* str.lower()
RECURSIVE lower(_)
lower(s) ==
    IF Len(s) = 0 THEN ""
    ELSE IF Len(s) = 1 THEN (IF s \in DOMAIN LowerMap THEN LowerMap[s] ELSE s)
    ELSE LET h == Len(s) \div 2
         IN  lower(SubSeq(s, 1, h)) \o lower(SubSeq(s, h + 1, Len(s)))

\* k in t
Contains(t, k) ==
    \E i \in 1..(Len(t) - Len(k) + 1) : SubSeq(t, i, i + Len(k) - 1) = k

\* t.find(k), 1-based; 0 when k does not occur
Find(t, k) ==
    LET S == {i \in 1..(Len(t) - Len(k) + 1) : SubSeq(t, i, i + Len(k) - 1) = k}
    IN  IF S = {} THEN 0 ELSE CHOOSE i \in S : \A j \in S : i <= j

\* t.rfind(k), 1-based; 0 when k does not occur
RFind(t, k) ==
    LET S == {i \in 1..(Len(t) - Len(k) + 1) : SubSeq(t, i, i + Len(k) - 1) = k}
    IN  IF S = {} THEN 0 ELSE CHOOSE i \in S : \A j \in S : j <= i

\* t.split(sep)
RECURSIVE split(_, _)
split(t, sep) ==
    LET i == Find(t, sep)
    IN  IF i = 0 THEN <<(IF Len(t) = 0 THEN "" ELSE t)>>
        ELSE <<(IF i = 1 THEN "" ELSE SubSeq(t, 1, i - 1))>>
             \o split(SubSeq(t, i + Len(sep), Len(t)), sep)

Whitespace == {" ", "\n", "\t"}

\* s.strip()
strip(s) ==
    LET S == {i \in 1..Len(s) : CharAt(s, i) \notin Whitespace}
    IN  IF S = {} THEN ""
        ELSE SubSeq(s, CHOOSE i \in S : \A j \in S : i <= j,
                       CHOOSE i \in S : \A j \in S : j <= i)

\* s.split(): the maximal runs of non-whitespace characters
\* (the words of the two halves; a word running across the middle is put
\* together again)
RECURSIVE words(_)
words(s) ==
    IF Len(s) = 0 THEN <<>>
    ELSE IF Len(s) = 1 THEN (IF s \in Whitespace THEN <<>> ELSE <<s>>)
    ELSE LET h == Len(s) \div 2
             l == words(SubSeq(s, 1, h))
             r == words(SubSeq(s, h + 1, Len(s)))
         IN  IF CharAt(s, h) \in Whitespace \/ CharAt(s, h + 1) \in Whitespace
             THEN l \o r
             ELSE SubSeq(l, 1, Len(l) - 1) \o <<l[Len(l)] \o r[1]>> \o Tail(r)

\* sep.join(parts)
RECURSIVE join(_, _)
join(sep, parts) ==
    IF Len(parts) = 0 THEN ""
    ELSE IF Len(parts) = 1 THEN parts[1]
    ELSE LET h == Len(parts) \div 2
         IN  join(sep, SubSeq(parts, 1, h)) \o sep \o join(sep, SubSeq(parts, h + 1, Len(parts)))

\* s[:n]
Prefix(s, n) == IF Len(s) <= n THEN s ELSE IF n = 0 THEN "" ELSE SubSeq(s, 1, n)

\* seq[:n] of a list
Take(seq, n) == IF Len(seq) <= n THEN seq ELSE SubSeq(seq, 1, n)

\* any(keyword in text for keyword in keywords)
AnyIn(keywords, text) == \E i \in 1..Len(keywords) : Contains(text, keywords[i])

Max(a, b) == IF a >= b THEN a ELSE b


(***************************************************************************)
(* Numbers as text: f"{x:.2f}s", f"{x:.1f}s" and float(s.replace("s","")) *)
(* A time x is held in milliseconds.                                       *)
(***************************************************************************)
\* round(n / d) to the nearest integer, ties to even (Python's float formatting
\* of a value that is exactly representable)
RoundDiv(n, d) ==
    LET q == n \div d
        r == n % d
    IN  IF 2 * r < d THEN q
        ELSE IF 2 * r > d THEN q + 1
        ELSE IF q % 2 = 0 THEN q ELSE q + 1

\* f"{ms/1000:.2f}"
Fixed2(ms) ==
    LET cs == RoundDiv(ms, 10)
    IN  ToString(cs \div 100) \o "." \o ToString((cs % 100) \div 10) \o ToString(cs % 10)

\* f"{ms/1000:.1f}"
Fixed1(ms) ==
    LET ds == RoundDiv(ms, 100)
    IN  ToString(ds \div 10) \o "." \o ToString(ds % 10)

Digits == "0123456789"

IsDigits(s) == Len(s) > 0 /\ \A i \in 1..Len(s) : Contains(Digits, CharAt(s, i))

\* int(s) of a string of decimal digits
RECURSIVE DigitsValue(_)
DigitsValue(s) ==
    IF Len(s) = 0 THEN 0
    ELSE 10 * DigitsValue(IF Len(s) = 1 THEN "" ELSE SubSeq(s, 1, Len(s) - 1))
         + (Find(Digits, CharAt(s, Len(s))) - 1)

\* s.replace(old, "")
RECURSIVE remove(_, _)
remove(s, old) ==
    LET i == Find(s, old)
    IN  IF i = 0 THEN s
        ELSE (IF i = 1 THEN "" ELSE SubSeq(s, 1, i - 1))
             \o remove(SubSeq(s, i + Len(old), Len(s)), old)

ValueError == 0 - 1

\* float(s), in ms, of a plain decimal "d+" or "d+.d{1,3}"; ValueError for
\* any other string of the model's inputs (none of them is a float in another
\* notation: no exponent, sign, inf or nan)
ParseFloat(s) ==
    LET dot == Find(s, ".")
        whole == IF dot = 0 THEN s ELSE IF dot = 1 THEN "" ELSE SubSeq(s, 1, dot - 1)
        frac == IF dot = 0 \/ dot = Len(s) THEN "" ELSE SubSeq(s, dot + 1, Len(s))
    IN  IF ~IsDigits(whole) THEN ValueError
        ELSE IF dot = 0 THEN 1000 * DigitsValue(whole)
        ELSE IF ~IsDigits(frac) \/ Len(frac) > 3 THEN ValueError
        ELSE 1000 * DigitsValue(whole)
             + DigitsValue(frac) * (CASE Len(frac) = 1 -> 100
                                      [] Len(frac) = 2 -> 10
                                      [] OTHER -> 1)

(***************************************************************************)
(* app/models/schemas.py                                                   *)
(***************************************************************************)
TERMS_OF_SERVICE == "Terms of Service"
PRIVACY_POLICY == "Privacy Policy"
EMPLOYMENT_CONTRACT == "Employment Contract"
SOFTWARE_LICENSE == "Software License"
UNKNOWN == "Unknown"

LOW == "Low"
MEDIUM == "Medium"
HIGH == "High"

POSITIVE == "Positive"
NEUTRAL == "Neutral"
NEGATIVE == "Negative"

COMPLETED == "completed"

\* uuid.uuid4(): the n-th value drawn, distinct from every other one
uuid4(n) == "uuid-" \o ToString(n)

(***************************************************************************)
(* app/services/assembly_line.py: the stages of PactGuardAssemblyLine      *)
(***************************************************************************)
_document_ingestion(text) ==
    LET normalized_text == join(" ", words(strip(text)))
    IN  [normalized_text |-> normalized_text,
         word_count |-> Len(words(normalized_text))]

\* a classifier that tries the privacy-policy group before the terms-of-service
\* group
_legal_classification_PrivacyFirst(text) ==
    LET text_lower == lower(text)
    IN  IF AnyIn(<<"privacy policy", "data collection", "personal information">>, text_lower)
        THEN [doc_type |-> PRIVACY_POLICY,
              sections |-> <<"Data Collection", "Data Usage", "Data Sharing",
                             "User Rights", "Cookies">>]
        ELSE IF AnyIn(<<"terms of service", "terms of use", "user agreement">>, text_lower)
        THEN [doc_type |-> TERMS_OF_SERVICE,
              sections |-> <<"User Obligations", "Service Terms", "Liability",
                             "Termination", "Dispute Resolution">>]
        ELSE [doc_type |-> UNKNOWN,
              sections |-> <<"General Terms", "Conditions", "Rights", "Obligations">>]

_legal_classification(text) ==
    LET text_lower == lower(text)
    IN  IF AnyIn(<<"terms of service", "terms of use", "user agreement">>, text_lower)
        THEN [doc_type |-> TERMS_OF_SERVICE,
              sections |-> <<"User Obligations", "Service Terms", "Liability",
                             "Termination", "Dispute Resolution">>]
        ELSE IF AnyIn(<<"privacy policy", "data collection", "personal information">>, text_lower)
        THEN [doc_type |-> PRIVACY_POLICY,
              sections |-> <<"Data Collection", "Data Usage", "Data Sharing",
                             "User Rights", "Cookies">>]
        ELSE IF AnyIn(<<"employment agreement", "employment contract">>, text_lower)
        THEN [doc_type |-> EMPLOYMENT_CONTRACT,
              sections |-> <<"Job Duties", "Compensation", "Benefits",
                             "Termination", "Confidentiality">>]
        ELSE IF AnyIn(<<"software license", "mit license", "gpl", "apache">>, text_lower)
        THEN [doc_type |-> SOFTWARE_LICENSE,
              sections |-> <<"License Grant", "Restrictions", "Attribution",
                             "Warranty", "Liability">>]
        ELSE [doc_type |-> UNKNOWN,
              sections |-> <<"General Terms", "Conditions", "Rights", "Obligations">>]

risk_keywords == <<"liable", "responsibility", "terminate", "breach", "penalty", "damages", "lawsuit">>
data_keywords == <<"collect", "store", "share", "process", "personal data", "information", "cookies">>
obligation_keywords == <<"must", "shall", "required", "agree", "consent", "responsible", "comply">>

\* a chain that tests the obligation keywords before the other two sets
AsmClauseType_ObligationFirst(sentence_lower) ==
    IF AnyIn(obligation_keywords, sentence_lower) THEN "obligation"
    ELSE IF AnyIn(risk_keywords, sentence_lower) THEN "risk"
    ELSE IF AnyIn(data_keywords, sentence_lower) THEN "data_usage"
    ELSE "general"

\* the if / elif / elif chain of _clause_extraction, "general" when none matches
AsmClauseType(sentence_lower) ==
    IF AnyIn(risk_keywords, sentence_lower) THEN "risk"
    ELSE IF AnyIn(data_keywords, sentence_lower) THEN "data_usage"
    ELSE IF AnyIn(obligation_keywords, sentence_lower) THEN "obligation"
    ELSE "general"

\* PactGuardAssemblyLine._classify_clause_section
RECURSIVE _classify_clause_section(_, _)
_classify_clause_section(text, sections) ==
    IF Len(sections) = 0 THEN "General Terms"
    ELSE LET ws == words(Head(sections))
         IN  IF \E i \in 1..Len(ws) : Contains(text, lower(ws[i]))
             THEN Head(sections)
             ELSE _classify_clause_section(text, Tail(sections))

AsmClauseCap == 15
AsmMinSentenceLen == 20

\* sentences[:15]
AsmExamined(sentences) == Take(sentences, AsmClauseCap)

\* a _clause_extraction that skips the short sentences first and keeps the
\* first 15 of the others
_clause_extraction_FilterFirst(text, sections, uuid0) ==
    LET sentences == split(text, ". ")
        kept == AsmExamined(SelectSeq(sentences,
                                      LAMBDA s : ~(Len(strip(s)) < AsmMinSentenceLen)))
    IN  [i \in 1..Len(kept) |->
            [id |-> uuid4(uuid0 + i),
             text |-> strip(kept[i]),
             section |-> _classify_clause_section(lower(kept[i]), sections),
             type |-> AsmClauseType(lower(kept[i]))]]

\* uuid0 is the number of uuid4() values drawn before the call
_clause_extraction(text, sections, uuid0) ==
    LET sentences == split(text, ". ")
        kept == SelectSeq(AsmExamined(sentences),
                          LAMBDA s : ~(Len(strip(s)) < AsmMinSentenceLen))
    IN  [i \in 1..Len(kept) |->
            [id |-> uuid4(uuid0 + i),
             text |-> strip(kept[i]),
             section |-> _classify_clause_section(lower(kept[i]), sections),
             type |-> AsmClauseType(lower(kept[i]))]]

ExcerptLen == 200

\* clause["text"][:200] + ("..." if len(clause["text"]) > 200 else "")
AsmClauseText(text) ==
    Prefix(text, ExcerptLen) \o (IF Len(text) > ExcerptLen THEN "..." ELSE "")

AsmObligation(clause) ==
    [id |-> clause.id, category |-> clause.section, clause |-> AsmClauseText(clause.text),
     explanation |-> "This clause creates a binding obligation that you must follow.",
     severity |-> MEDIUM,
     impact |-> "You must comply with this requirement to avoid potential consequences."]

AsmRightAndDataUsage(clause) ==
    [id |-> clause.id, category |-> clause.section, clause |-> AsmClauseText(clause.text),
     explanation |-> "This clause relates to how your personal data is handled.",
     severity |-> MEDIUM,
     userProtection |-> "Understanding this helps protect your privacy rights."]

AsmRedFlag_Medium(clause) ==
    [id |-> clause.id, category |-> clause.section, clause |-> AsmClauseText(clause.text),
     explanation |-> "This clause presents significant legal risks and should be carefully reviewed.",
     severity |-> MEDIUM,
     recommendation |-> "Consider seeking legal advice before agreeing to this clause.",
     legalImplications |-> "This clause may limit your rights or expose you to liability."]

AsmRedFlag(clause) ==
    [id |-> clause.id, category |-> clause.section, clause |-> AsmClauseText(clause.text),
     explanation |-> "This clause presents significant legal risks and should be carefully reviewed.",
     severity |-> HIGH,
     recommendation |-> "Consider seeking legal advice before agreeing to this clause.",
     legalImplications |-> "This clause may limit your rights or expose you to liability."]

\* [f(c) for c in clauses if c["type"] == type], in clause order
Selected(clauses, type) == SelectSeq(clauses, LAMBDA c : c.type = type)

\* the thresholds of _risk_analysis with 3 entries counting as many
AsmOverallRisk_FromThree(obligations, rights_data_usage, red_flags) ==
    IF Len(red_flags) > 0 THEN HIGH
    ELSE IF Len(obligations) >= 3 \/ Len(rights_data_usage) >= 3 THEN MEDIUM
    ELSE LOW

AsmOverallRisk(obligations, rights_data_usage, red_flags) ==
    IF Len(red_flags) > 0 THEN HIGH
    ELSE IF Len(obligations) > 3 \/ Len(rights_data_usage) > 3 THEN MEDIUM
    ELSE LOW

\* a _risk_analysis that reports the general clauses among the obligations
_risk_analysis_GeneralReported(clauses) ==
    LET o == SelectSeq(clauses, LAMBDA c : c.type \in {"obligation", "general"})
        d == Selected(clauses, "data_usage")
        r == Selected(clauses, "risk")
        obligations == [i \in 1..Len(o) |-> AsmObligation(o[i])]
        rights_data_usage == [i \in 1..Len(d) |-> AsmRightAndDataUsage(d[i])]
        red_flags == [i \in 1..Len(r) |-> AsmRedFlag(r[i])]
    IN  [obligations |-> obligations,
         rights_data_usage |-> rights_data_usage,
         red_flags |-> red_flags,
         overall_risk |-> AsmOverallRisk(obligations, rights_data_usage, red_flags)]

_risk_analysis(clauses) ==
    LET o == Selected(clauses, "obligation")
        d == Selected(clauses, "data_usage")
        r == Selected(clauses, "risk")
        obligations == [i \in 1..Len(o) |-> AsmObligation(o[i])]
        rights_data_usage == [i \in 1..Len(d) |-> AsmRightAndDataUsage(d[i])]
        red_flags == [i \in 1..Len(r) |-> AsmRedFlag(r[i])]
    IN  [obligations |-> obligations,
         rights_data_usage |-> rights_data_usage,
         red_flags |-> red_flags,
         overall_risk |-> AsmOverallRisk(obligations, rights_data_usage, red_flags)]

_generate_key_points(doc_type) ==
    CASE doc_type = PRIVACY_POLICY ->
            <<"Explains how your personal data is collected and used",
              "Describes data sharing practices with third parties",
              "Outlines your rights regarding your personal information",
              "Details cookie usage and tracking technologies">>
      [] doc_type = TERMS_OF_SERVICE ->
            <<"Defines your responsibilities and obligations as a user",
              "Explains service limitations and restrictions",
              "Describes conditions for account termination",
              "Outlines dispute resolution procedures">>
      [] doc_type = EMPLOYMENT_CONTRACT ->
            <<"Defines job duties and responsibilities",
              "Outlines compensation and benefits",
              "Describes termination conditions",
              "Includes confidentiality and non-compete clauses">>
      [] doc_type = SOFTWARE_LICENSE ->
            <<"Grants specific usage rights for the software",
              "Lists restrictions on software use and distribution",
              "Defines warranty and support limitations",
              "Outlines attribution requirements">>
      [] OTHER ->
            <<"Contains important legal obligations and terms",
              "Includes provisions that may affect your rights",
              "Requires careful review before acceptance",
              "May have significant legal implications">>

AsmSentiment(risk_level) ==
    IF risk_level = HIGH THEN NEGATIVE
    ELSE IF risk_level = LOW THEN POSITIVE
    ELSE NEUTRAL

\* lastUpdated is datetime.now(), held as the clock value
_plain_english_translation(doc_type, risk_level, word_count, time) ==
    [title |-> "Legal Document Analysis: " \o doc_type,
     documentType |-> doc_type,
     sentiment |-> AsmSentiment(risk_level),
     keyPoints |-> _generate_key_points(doc_type),
     riskLevel |-> risk_level,
     readingTime |-> ToString(Max(1, word_count \div 200)) \o " min read",
     lastUpdated |-> time]

\* the ProcessingStep _add_processing_step appends; confidence in hundredths
ProcessingStep(agent_name, duration, confidence) ==
    [agent |-> agent_name,
     status |-> COMPLETED,
     duration |-> Fixed2(duration) \o "s",
     confidence |-> confidence]


\* AIAssemblyLine(processing_steps=..., total_processing_time=...): pydantic
\* validates the list into a new list, so the model holds the steps recorded
\* up to its construction and does not see a later append to the argument
AIAssemblyLine(steps, total_processing_time) ==
    [processing_steps |-> steps, total_processing_time |-> total_processing_time]

\* a report without its ai_assembly_line
AnalysisResult_NoAssemblyLine(summary, obligations, rights_and_data_usage, red_flags, ai_assembly_line) ==
    [summary |-> summary,
     obligations |-> obligations,
     rights_and_data_usage |-> rights_and_data_usage,
     red_flags |-> red_flags]

AnalysisResult(summary, obligations, rights_and_data_usage, red_flags, ai_assembly_line) ==
    [summary |-> summary,
     obligations |-> obligations,
     rights_and_data_usage |-> rights_and_data_usage,
     red_flags |-> red_flags,
     ai_assembly_line |-> ai_assembly_line]

(***************************************************************************)
(* Inputs                                                                  *)
(***************************************************************************)
PrivacyScenario ==
    "PRIVACY POLICY. We collect your personal data including name, email. We share this data with third parties. All disputes resolved through binding arbitration."

NeutralScenario == "This is a short neutral sentence about nothing legal."

\* the texts of the requests served by the timed service
ServiceTexts == {PrivacyScenario, NeutralScenario}

\* sentences the generated documents are made of
SentencePool ==
    <<"PRIVACY POLICY",
      "We collect your personal data including name, email",
      "All disputes resolved through binding arbitration",
      "This is a short neutral sentence about nothing legal",
      "We may Terminate your account and you must pay damages",
      "You agree to the Terms of Service and shall comply",
      "Short one">>

MaxSentences == 2

\* the sequences over 1..n of length at most k
RECURSIVE SeqsUpTo(_, _)
SeqsUpTo(n, k) ==
    IF k = 0 THEN {<<>>}
    ELSE LET shorter == SeqsUpTo(n, k - 1)
         IN  shorter \cup {Append(q, i) : q \in shorter, i \in 1..n}

\* a document: the chosen sentences, each ended by a full stop; laid out on
\* one line, or one sentence per indented line
Document(choice, layout) ==
    LET sentences == [i \in 1..Len(choice) |-> SentencePool[choice[i]] \o "."]
    IN  IF layout = "line" THEN join(" ", sentences)
        ELSE "\n  " \o join("\n  ", sentences) \o "\n"

ShortDocuments ==
    {Document(c, l) : c \in SeqsUpTo(Len(SentencePool), MaxSentences), l \in {"line", "lines"}}

MaxLongSentences == 22

\* long documents: one sentence repeated n times
LongDocuments ==
    {join(" ", [i \in 1..n |-> sentence \o "."]) :
        sentence \in {"You must pay all fees now", "Short one"},
        n \in (AsmClauseCap - 1)..MaxLongSentences}

LongClauseRepeats == 25

\* documents of the remaining types, and one whose only sentence is longer
\* than the excerpt of a finding
SpecialTexts ==
    {"Employment Contract under the MIT License. You must work.",
     "Software License. Apache and GPL apply.",
     "You must pay all fees" \o join("", [i \in 1..LongClauseRepeats |-> " and more"]) \o "."}

\* a document with a clause of every category: risk, data_usage, obligation
\* and general; its first two sentences have keywords of two categories
MixedScenario ==
    "We may terminate your account and you must pay damages. We collect your personal data and you shall consent. You agree to the terms and shall comply with them. This is a short neutral sentence about nothing legal."

\* documents around the threshold of the overall risk: n obligation clauses
\* followed by k data_usage clauses, none of them a risk clause
ThresholdTexts ==
    {join(" ", [i \in 1..c[1] |-> "You must pay all fees now."]
               \o [i \in 1..c[2] |-> "We collect your email address."]) :
        c \in {<<3, 3>>, <<3, 0>>, <<4, 0>>, <<0, 4>>}}

\* documents whose sentence at position 16 is long enough for a clause while
\* most of the 15 before it are too short
LateClauseTexts ==
    {join(" ", [i \in 1..k |-> "Short one."]
               \o [i \in 1..(AsmClauseCap + 1 - k) |-> "You must pay all fees now."]) :
        k \in {AsmClauseCap - 1, AsmClauseCap}}

Texts ==
    ServiceTexts \cup ShortDocuments \cup LongDocuments \cup SpecialTexts
        \cup {MixedScenario} \cup ThresholdTexts \cup LateClauseTexts

(***************************************************************************)
(* app/main.py analyze_document -> assembly_line.analyze_document          *)
(* The coroutine has no await inside: on the event loop a call runs to its *)
(* return before the next call starts, so calls on the singleton are       *)
(* serial.  Time passes inside the stages; d is a stage's measured         *)
(* duration.                                                               *)
(***************************************************************************)
\* history entry: classifier by gave text the type and the key sections
Classification(by, text, document_type, key_sections) ==
    [by |-> by, text |-> text, document_type |-> document_type, key_sections |-> key_sections]

NoRequest ==
    [text |-> None, start_time |-> 0, normalized_text |-> None, word_count |-> 0,
     document_type |-> None, key_sections |-> <<>>, extracted_clauses |-> <<>>,
     obligations |-> <<>>, rights_data_usage |-> <<>>, red_flags |-> <<>>,
     overall_risk |-> None, summary |-> None]

\* start_time = time.time(); the effective definition of the class does not
\* reset self.processing_steps (the first definition, line 31, did)
Begin(text) ==
    /\ pc = "idle"
    /\ pc' = "ingestion"
    /\ requests' = requests + 1
    /\ req' = [NoRequest EXCEPT !.text = text, !.start_time = now]
    /\ response' = None
    /\ request_log' = <<>>
    /\ UNCHANGED <<entry, now, uuids, processing_steps, tool_pc, tool, wf, classifications>>

\* self._add_processing_step(agent_name, duration, confidence)
_add_processing_step(agent_name, duration, confidence) ==
    /\ processing_steps' = Append(processing_steps, ProcessingStep(agent_name, duration, confidence))
    /\ request_log' = Append(request_log, ProcessingStep(agent_name, duration, confidence))

DocumentIngestion(d) ==
    /\ pc = "ingestion"
    /\ LET r == _document_ingestion(req.text)
       IN  req' = [req EXCEPT !.normalized_text = r.normalized_text,
                              !.word_count = r.word_count]
    /\ now' = now + d
    /\ _add_processing_step("Document Ingestion", d, 95)
    /\ pc' = "classification"
    /\ UNCHANGED <<entry, uuids, requests, response, tool_pc, tool, wf, api, classifications>>

LegalClassification(d) ==
    /\ pc = "classification"
    /\ LET r == _legal_classification(req.normalized_text)
       IN  /\ req' = [req EXCEPT !.document_type = r.doc_type, !.key_sections = r.sections]
           /\ classifications' = Append(classifications,
                  Classification("assembly_line", req.text, r.doc_type, r.sections))
    /\ now' = now + d
    /\ _add_processing_step("Legal Classification", d, 92)
    /\ pc' = "extraction"
    /\ UNCHANGED <<entry, uuids, requests, response, tool_pc, tool, wf, api>>

ClauseExtraction(d) ==
    /\ pc = "extraction"
    /\ LET clauses == _clause_extraction(req.normalized_text, req.key_sections, uuids)
       IN  /\ req' = [req EXCEPT !.extracted_clauses = clauses]
           /\ uuids' = uuids + Len(clauses)
    /\ now' = now + d
    /\ _add_processing_step("Clause Extraction", d, 89)
    /\ pc' = "analysis"
    /\ UNCHANGED <<entry, requests, response, tool_pc, tool, wf, api, classifications>>

RiskAnalysis(d) ==
    /\ pc = "analysis"
    /\ LET r == _risk_analysis(req.extracted_clauses)
       IN  req' = [req EXCEPT !.obligations = r.obligations,
                              !.rights_data_usage = r.rights_data_usage,
                              !.red_flags = r.red_flags,
                              !.overall_risk = r.overall_risk]
    /\ now' = now + d
    /\ _add_processing_step("Risk Analysis", d, 87)
    /\ pc' = "translation"
    /\ UNCHANGED <<entry, uuids, requests, response, tool_pc, tool, wf, api, classifications>>

PlainEnglishTranslation(d) ==
    /\ pc = "translation"
    /\ req' = [req EXCEPT !.summary =
                  _plain_english_translation(req.document_type, req.overall_risk,
                                             req.word_count, now)]
    /\ now' = now + d
    /\ _add_processing_step("Plain English Translation", d, 91)
    /\ pc' = "report"
    /\ UNCHANGED <<entry, uuids, requests, response, tool_pc, tool, wf, api, classifications>>

\* total_time = time.time() - start_time, formatted with one decimal
AsmTotalProcessingTime(total_time) == Fixed1(total_time) \o "s"

\* Step 6 and the return: the AIAssemblyLine is built before the step of the
\* stage itself is appended
ReportGeneration(d) ==
    /\ pc = "report"
    /\ LET total_time == now - req.start_time
           ai_assembly_line == AIAssemblyLine(processing_steps,
                                              AsmTotalProcessingTime(total_time))
       IN  response' = AnalysisResult(req.summary, req.obligations, req.rights_data_usage,
                                      req.red_flags, ai_assembly_line)
    /\ now' = now + d
    /\ _add_processing_step("Report Generation", d, 93)
    /\ pc' = "idle"
    /\ UNCHANGED <<entry, uuids, requests, req, tool_pc, tool, wf, api, classifications>>


(***************************************************************************)
(* app/services/agents/portia_tools.py: the Portia tools                   *)
(***************************************************************************)
\* DocumentIngestionTool._normalize_text: re.sub(r'\s+', ' ', text.strip());
\* the quote replacements that follow change no character of an ASCII text
_normalize_text(text) == join(" ", words(strip(text)))

\* a classifier that remembers: it answers Unknown once a classification has
\* been made before
_classify_document_type_Unstable(text) ==
    IF Len(classifications) > 0 THEN UNKNOWN
    ELSE IF AnyIn(<<"privacy policy", "data collection">>, lower(text)) THEN PRIVACY_POLICY
    ELSE UNKNOWN

\* LegalClassificationTool._classify_document_type
_classify_document_type(text) ==
    LET text_lower == lower(text)
    IN  IF AnyIn(<<"terms of service", "terms of use">>, text_lower) THEN TERMS_OF_SERVICE
        ELSE IF AnyIn(<<"privacy policy", "data collection">>, text_lower) THEN PRIVACY_POLICY
        ELSE IF AnyIn(<<"employment agreement", "employment contract">>, text_lower)
        THEN EMPLOYMENT_CONTRACT
        ELSE IF AnyIn(<<"software license", "mit license">>, text_lower) THEN SOFTWARE_LICENSE
        ELSE UNKNOWN

\* LegalClassificationTool._identify_key_sections
_identify_key_sections(doc_type) ==
    IF doc_type = PRIVACY_POLICY
    THEN <<"Data Collection", "Data Usage", "Data Sharing", "User Rights", "Cookies">>
    ELSE IF doc_type = TERMS_OF_SERVICE
    THEN <<"User Obligations", "Service Terms", "Liability", "Termination", "Dispute Resolution">>
    ELSE <<"General Terms", "Conditions", "Rights", "Obligations">>

\* the keywords dict of ClauseExtractionTool._extract_clauses, in insertion order
tool_keywords ==
    <<[type |-> "risk", kws |-> <<"liable", "responsibility", "terminate", "breach", "penalty">>],
      [type |-> "data_usage", kws |-> <<"collect", "store", "share", "process", "personal data">>],
      [type |-> "obligation", kws |-> <<"must", "shall", "required", "agree to", "consent">>]>>

\* for type, kws in keywords.items(): first match, else "general"
RECURSIVE ToolClauseTypeFrom(_, _)
ToolClauseTypeFrom(sentence_lower, groups) ==
    IF Len(groups) = 0 THEN "general"
    ELSE IF AnyIn(Head(groups).kws, sentence_lower) THEN Head(groups).type
    ELSE ToolClauseTypeFrom(sentence_lower, Tail(groups))

ToolClauseType(sentence_lower) == ToolClauseTypeFrom(sentence_lower, tool_keywords)

\* ClauseExtractionTool._classify_clause_section
RECURSIVE ToolClauseSection(_, _)
ToolClauseSection(text, sections) ==
    IF Len(sections) = 0 THEN "General Terms"
    ELSE LET ws == words(lower(Head(sections)))
         IN  IF \E i \in 1..Len(ws) : Contains(text, ws[i])
             THEN Head(sections)
             ELSE ToolClauseSection(text, Tail(sections))

ToolClauseCap == 20

\* return clauses[:20]
ToolReturned_NoCap(clauses) == clauses

ToolReturned(clauses) == Take(clauses, ToolClauseCap)

\* ClauseExtractionTool._extract_clauses; a uuid4 is drawn for every sentence
_extract_clauses(text, sections, uuid0) ==
    LET sentences == split(text, ". ")
    IN  ToolReturned([i \in 1..Len(sentences) |->
            [id |-> uuid4(uuid0 + i),
             text |-> strip(sentences[i]),
             section |-> ToolClauseSection(lower(sentences[i]), sections),
             type |-> ToolClauseType(lower(sentences[i]))]])

\* RiskAnalysisTool._create_item; the explanation names the item type with
\* its underscores replaced by spaces
_create_item(clause, item_type) ==
    LET item == [id |-> clause.id, category |-> clause.section,
                 clause |-> Prefix(clause.text, ExcerptLen),
                 explanation |-> "This clause defines a key "
                                 \o (CASE item_type = "data_usage" -> "data usage"
                                       [] item_type = "red_flag" -> "red flag"
                                       [] OTHER -> item_type) \o ".",
                 severity |-> MEDIUM]
    IN  CASE item_type = "obligation" ->
                [id |-> item.id, category |-> item.category, clause |-> item.clause,
                 explanation |-> item.explanation, severity |-> item.severity,
                 impact |-> "User must comply with this."]
          [] item_type = "data_usage" ->
                [id |-> item.id, category |-> item.category, clause |-> item.clause,
                 explanation |-> item.explanation, severity |-> item.severity,
                 userProtection |-> "Affects user data and privacy."]
          [] item_type = "red_flag" ->
                [id |-> item.id, category |-> item.category, clause |-> item.clause,
                 explanation |-> item.explanation, severity |-> HIGH,
                 recommendation |-> "Review this clause carefully.",
                 legalImplications |-> "Potential for significant legal consequences."]
          [] OTHER -> item

\* RiskAnalysisTool._calculate_overall_risk with its second branch taken when
\* there is no red flag
_calculate_overall_risk_Medium(red_flags) ==
    IF Len(red_flags) > 0 THEN HIGH
    ELSE MEDIUM

\* RiskAnalysisTool._calculate_overall_risk
_calculate_overall_risk(red_flags) ==
    IF Len(red_flags) > 0 THEN HIGH
    ELSE IF Len(red_flags) > 0 THEN MEDIUM
    ELSE LOW

\* a RiskAnalysisTool.run that derives the overall risk as _risk_analysis
\* does, from the numbers of obligations and rights too
ToolRiskAnalysisResult_PolicyB(extracted_clauses) ==
    LET o == Selected(extracted_clauses, "obligation")
        d == Selected(extracted_clauses, "data_usage")
        r == Selected(extracted_clauses, "risk")
    IN  [obligations |-> [i \in 1..Len(o) |-> _create_item(o[i], "obligation")],
         rights_and_data_usage |-> [i \in 1..Len(d) |-> _create_item(d[i], "data_usage")],
         red_flags |-> [i \in 1..Len(r) |-> _create_item(r[i], "red_flag")],
         overall_risk |-> AsmOverallRisk(o, d, r),
         confidence |-> 87]

\* RiskAnalysisTool.run
ToolRiskAnalysisResult(extracted_clauses) ==
    LET o == Selected(extracted_clauses, "obligation")
        d == Selected(extracted_clauses, "data_usage")
        r == Selected(extracted_clauses, "risk")
        red_flags == [i \in 1..Len(r) |-> _create_item(r[i], "red_flag")]
    IN  [obligations |-> [i \in 1..Len(o) |-> _create_item(o[i], "obligation")],
         rights_and_data_usage |-> [i \in 1..Len(d) |-> _create_item(d[i], "data_usage")],
         red_flags |-> red_flags,
         overall_risk |-> _calculate_overall_risk(red_flags),
         confidence |-> 87]

\* PlainEnglishTranslationTool._generate_key_points
ToolKeyPoints(doc_type) ==
    CASE doc_type = PRIVACY_POLICY ->
            <<"Explains how your personal data is collected and used.",
              "Describes data sharing practices with third parties.",
              "Outlines your rights regarding your personal information.">>
      [] doc_type = TERMS_OF_SERVICE ->
            <<"Defines your responsibilities and the service limitations.",
              "Explains conditions for account termination.",
              "Outlines the dispute resolution process.">>
      [] OTHER ->
            <<"Contains important legal obligations and rights.",
              "Requires careful review before acceptance.">>

\* PlainEnglishTranslationTool.run
ToolSummary(document_type, overall_risk, word_count, time) ==
    [title |-> "Legal Document Analysis: " \o document_type,
     documentType |-> document_type,
     sentiment |-> (IF overall_risk = HIGH THEN NEGATIVE
                    ELSE IF overall_risk = LOW THEN POSITIVE
                    ELSE NEUTRAL),
     keyPoints |-> ToolKeyPoints(document_type),
     riskLevel |-> overall_risk,
     readingTime |-> ToString(Max(1, word_count \div 200)) \o " min read",
     lastUpdated |-> time]

\* a conversion that counts a duration float() rejects as zero
StepSeconds_ZeroIfUnparsable(step) ==
    Max(0, ParseFloat(remove(step.duration, "s")))

\* float(step.duration.replace("s", "")), in ms
StepSeconds(step) == ParseFloat(remove(step.duration, "s"))

\* sum(float(step.duration.replace("s", "")) for step in processing_steps)
RECURSIVE SumSeconds(_)
SumSeconds(steps) ==
    IF Len(steps) = 0 THEN 0 ELSE StepSeconds(Head(steps)) + SumSeconds(Tail(steps))

\* f"{total_time:.1f}s" of ReportGenerationTool.run
ToolTotalProcessingTime(steps) == Fixed1(SumSeconds(steps)) \o "s"

NoTool ==
    [text |-> None, normalized_text |-> None, word_count |-> 0, document_type |-> None,
     key_sections |-> <<>>, extracted_clauses |-> <<>>, risk |-> None, summary |-> None,
     steps |-> <<>>, final_report |-> None]

ToolBegin(text) ==
    /\ tool_pc \in {"idle", "done", "ToolHardError"}
    /\ tool_pc' = "ingestion"
    /\ tool' = [NoTool EXCEPT !.text = text]
    /\ UNCHANGED <<entry, asmVars, wf, api, classifications>>

\* DocumentIngestionTool.run
ToolDocumentIngestion ==
    /\ tool_pc = "ingestion"
    /\ LET normalized_text == _normalize_text(tool.text)
       IN  tool' = [tool EXCEPT !.normalized_text = normalized_text,
                                !.word_count = Len(words(normalized_text))]
    /\ tool_pc' = "classification"
    /\ UNCHANGED <<entry, asmVars, wf, api, classifications>>

\* LegalClassificationTool.run
ToolLegalClassification ==
    /\ tool_pc = "classification"
    /\ LET document_type == _classify_document_type(tool.normalized_text)
       IN  /\ tool' = [tool EXCEPT !.document_type = document_type,
                                   !.key_sections = _identify_key_sections(document_type)]
           /\ classifications' = Append(classifications,
                  Classification("tools", tool.text, document_type,
                                 _identify_key_sections(document_type)))
    /\ tool_pc' = "extraction"
    /\ UNCHANGED <<entry, asmVars, wf, api>>

\* ClauseExtractionTool.run
ToolClauseExtraction ==
    /\ tool_pc = "extraction"
    /\ tool' = [tool EXCEPT !.extracted_clauses =
                    _extract_clauses(tool.normalized_text, tool.key_sections, uuids)]
    /\ uuids' = uuids + Len(split(tool.normalized_text, ". "))
    /\ tool_pc' = "analysis"
    /\ UNCHANGED <<entry, now, processing_steps, requests, pc, req, response, request_log, wf, api, classifications>>

\* RiskAnalysisTool.run
ToolRiskAnalysis ==
    /\ tool_pc = "analysis"
    /\ tool' = [tool EXCEPT !.risk = ToolRiskAnalysisResult(tool.extracted_clauses)]
    /\ tool_pc' = "translation"
    /\ UNCHANGED <<entry, asmVars, wf, api, classifications>>

\* RiskAnalysisTool.run on the clauses a caller hands it: a clause whose type
\* is none of obligation, data_usage, risk matches no branch of the if/elif
\* chain and is passed over; nothing in the loop raises on it
ToolRiskAnalysisOn(extracted_clauses) ==
    /\ tool_pc = "analysis"
    /\ tool' = [tool EXCEPT !.extracted_clauses = extracted_clauses,
                            !.risk = ToolRiskAnalysisResult(extracted_clauses)]
    /\ tool_pc' = "translation"
    /\ UNCHANGED <<entry, asmVars, wf, api, classifications>>

\* PlainEnglishTranslationTool.run
ToolPlainEnglishTranslation ==
    /\ tool_pc = "translation"
    /\ tool' = [tool EXCEPT !.summary =
                    ToolSummary(tool.document_type, tool.risk.overall_risk, tool.word_count, now)]
    /\ tool_pc' = "report"
    /\ UNCHANGED <<entry, asmVars, wf, api, classifications>>

\* ReportGenerationTool.run on the processing steps it is given; a duration
\* float() rejects raises ValueError, re-raised as ToolHardError
ToolReportGeneration(steps) ==
    /\ tool_pc = "report"
    /\ IF \E i \in 1..Len(steps) : StepSeconds(steps[i]) = ValueError
       THEN /\ tool_pc' = "ToolHardError"
            /\ tool' = [tool EXCEPT !.steps = steps]
       ELSE /\ tool_pc' = "done"
            /\ tool' = [tool EXCEPT
                   !.steps = steps,
                   !.final_report =
                       AnalysisResult(tool.summary, tool.risk.obligations,
                                      tool.risk.rights_and_data_usage, tool.risk.red_flags,
                                      AIAssemblyLine(steps, ToolTotalProcessingTime(steps)))]
    /\ UNCHANGED <<entry, asmVars, wf, api, classifications>>


(***************************************************************************)
(* JSON values: a value is [t, v] with t its JSON type; an object's v is a *)
(* function from its keys to values, a list's v a sequence of values.      *)
(***************************************************************************)
Str(s) == [t |-> "str", v |-> s]
Num(n) == [t |-> "num", v |-> n]
List(q) == [t |-> "list", v |-> q]
Obj(f) == [t |-> "obj", v |-> f]
Null == [t |-> "null", v |-> 0]
EmptyObj == Obj(<<>>)

\* d.get(key, default) on a dict
Get(d, key, default) == IF key \in DOMAIN d.v THEN d.v[key] ELSE default

\* the keys a serialized object lists, in this order
KeyOrder ==
    <<"documentType", "riskScore", "overallSeverity", "summary", "keyPoints",
      "mainConcerns", "recommendations", "categories", "redFlags", "obligations",
      "rights", "terms", "id", "clause", "explanation", "severity", "processedAt">>

\* json.dumps(value) as a provider writes it
RECURSIVE Dumps(_)
Dumps(x) ==
    CASE x.t = "str" -> "\"" \o x.v \o "\""
      [] x.t = "num" -> ToString(x.v)
      [] x.t = "null" -> "null"
      [] x.t = "list" -> "[" \o join(", ", [i \in 1..Len(x.v) |-> Dumps(x.v[i])]) \o "]"
      [] x.t = "obj" ->
            LET keys == SelectSeq(KeyOrder, LAMBDA k : k \in DOMAIN x.v)
            IN  "{" \o join(", ", [i \in 1..Len(keys) |->
                                      "\"" \o keys[i] \o "\": " \o Dumps(x.v[keys[i]])])
                \o "}"

(***************************************************************************)
(* demo_analysis.py                                                        *)
(***************************************************************************)
\* the document type and the range random.randint draws the risk score from
DemoDocType(document_text) ==
    LET doc_lower == lower(document_text)
    IN  IF Contains(doc_lower, "privacy")
        THEN [doc_type |-> "Privacy Policy", lo |-> 70, hi |-> 90]
        ELSE IF Contains(doc_lower, "terms") \/ Contains(doc_lower, "service")
        THEN [doc_type |-> "Terms of Service", lo |-> 60, hi |-> 85]
        ELSE IF Contains(doc_lower, "employment") \/ Contains(doc_lower, "contract")
        THEN [doc_type |-> "Employment Contract", lo |-> 40, hi |-> 70]
        ELSE [doc_type |-> "Unknown", lo |-> 50, hi |-> 80]

\* the thresholds of generate_demo_analysis with the label of the top band
\* left as the score band's name
DemoSeverity_Severe(risk_score) ==
    IF risk_score >= 80 THEN "Severe"
    ELSE IF risk_score >= 65 THEN "High"
    ELSE IF risk_score >= 45 THEN "Medium"
    ELSE "Low"

DemoSeverity(risk_score) ==
    IF risk_score >= 80 THEN "Critical"
    ELSE IF risk_score >= 65 THEN "High"
    ELSE IF risk_score >= 45 THEN "Medium"
    ELSE "Low"

generate_main_concerns(text, doc_type) ==
    LET text_lower == lower(text)
        concerns ==
            (IF Contains(text_lower, "arbitration")
             THEN <<"Mandatory arbitration waives right to jury trial.">> ELSE <<>>)
            \o (IF Contains(text_lower, "indemnify")
                THEN <<"Broad indemnification increases user financial risk.">> ELSE <<>>)
            \o (IF Contains(text_lower, "data") /\ Contains(text_lower, "third")
                THEN <<"Extensive data sharing with third parties.">> ELSE <<>>)
            \o (IF Contains(text_lower, "terminate")
                   /\ (Contains(text_lower, "any time") \/ Contains(text_lower, "without notice"))
                THEN <<"Service can be terminated without adequate notice.">> ELSE <<>>)
    IN  Take(IF Len(concerns) = 0
             THEN <<"Standard " \o lower(doc_type) \o " concerns apply.">>
             ELSE concerns, 3)

generate_recommendations(doc_type, severity) ==
    LET recs == <<"Read the entire document carefully before accepting.",
                  "Consider consulting a legal professional for high-risk clauses.",
                  "Keep records of all communications and transactions.">>
    IN  Take(IF severity \in {"high", "critical"}
             THEN <<"HIGH RISK: Strongly consider alternatives to this service.">> \o recs
             ELSE recs, 4)

\* an item of the ReportItem format
ReportItem(title, originalClause, explanation, severity) ==
    Obj([title |-> title, originalClause |-> originalClause,
         explanation |-> explanation, severity |-> severity])

generate_red_flags(text) ==
    LET text_lower == lower(text)
    IN  (IF Contains(text_lower, "arbitration")
         THEN <<ReportItem(Str("Binding Arbitration Clause"),
                           Str("The document states that all disputes must be resolved through binding arbitration."),
                           Str("This clause significantly limits your legal options, preventing you from suing in a traditional court or participating in class-action lawsuits."),
                           Str("High"))>>
         ELSE <<>>)
        \o (IF Contains(text_lower, "indemnify")
            THEN <<ReportItem(Str("Broad Indemnification"),
                              Str("The document includes a clause requiring you to indemnify the company."),
                              Str("You could be held financially responsible for the company's legal fees if they are sued due to your actions, even if you are not at fault."),
                              Str("High"))>>
            ELSE <<>>)

generate_obligations ==
    <<ReportItem(Str("Compliance with Laws"),
                 Str("You agree to comply with all applicable laws and regulations when using the service."),
                 Str("You are responsible for ensuring your use of the service does not violate any local, state, or federal laws."),
                 Str("Medium"))>>

generate_rights_and_data_usage ==
    <<ReportItem(Str("Data Access and Deletion"),
                 Str("The privacy policy outlines your right to access and request deletion of your personal data."),
                 Str("You have the right to know what information is stored about you and to request its removal, which is a key data privacy right."),
                 Str("Low"))>>

\* generate_demo_analysis with risk_score the value random.randint returned;
\* the value is the JSON document the returned string holds
generate_demo_analysis(document_text, risk_score) ==
    LET doc_type == DemoDocType(document_text).doc_type
        severity == DemoSeverity(risk_score)
    IN  Obj([summary |->
                Obj([documentType |-> Str(doc_type),
                     overallRiskLevel |-> Str(severity),
                     keyConcerns |->
                        List(LET c == generate_main_concerns(document_text, doc_type)
                             IN  [i \in 1..Len(c) |-> Str(c[i])]),
                     recommendation |->
                        Str(join(" ", generate_recommendations(doc_type, lower(severity))))]),
             redFlags |-> List(generate_red_flags(document_text)),
             obligations |-> List(generate_obligations),
             rightsAndDataUsage |-> List(generate_rights_and_data_usage)])


(***************************************************************************)
(* free_ai_analysis.py                                                     *)
(***************************************************************************)
map_severity(severity) ==
    LET s_lower == lower(severity)
    IN  IF s_lower = "critical" THEN "Critical"
        ELSE IF s_lower = "high" THEN "High"
        ELSE IF s_lower = "low" THEN "Low"
        ELSE "Medium"

Exception == [t |-> "exception", v |-> 0]

\* whether iterating `items` and calling item.get on each element, and
\* severity.lower() on its severity, raises (AttributeError or TypeError)
RemapRaises(items) ==
    CASE items.t = "list" ->
            \E i \in 1..Len(items.v) :
                \/ items.v[i].t # "obj"
                \/ Get(items.v[i], "severity", Str("medium")).t # "str"
      [] items.t = "str" -> Len(items.v) > 0
      [] items.t = "obj" -> DOMAIN items.v # {}
      [] OTHER -> TRUE

\* remap_report_items(items) when it does not raise
remap_report_items(items) ==
    IF items.t = "list"
    THEN [i \in 1..Len(items.v) |->
            ReportItem(Get(items.v[i], "clause", Str("Untitled Clause")),
                       Get(items.v[i], "clause", Str("Original clause text not available.")),
                       Get(items.v[i], "explanation", Str("No explanation provided.")),
                       Str(map_severity(Get(items.v[i], "severity", Str("medium")).v)))]
    ELSE <<>>

\* whether " ".join(x) raises TypeError
JoinRaises(x) ==
    CASE x.t = "list" -> \E i \in 1..Len(x.v) : x.v[i].t # "str"
      [] x.t = "str" -> FALSE
      [] x.t = "obj" -> FALSE
      [] OTHER -> TRUE

\* " ".join(x) of a list of strings, of the characters of a string, or of
\* the keys of a dict
JoinValue(x) ==
    CASE x.t = "list" -> join(" ", [i \in 1..Len(x.v) |-> x.v[i].v])
      [] x.t = "str" -> join(" ", [i \in 1..Len(x.v) |-> CharAt(x.v, i)])
      [] x.t = "obj" -> join(" ", SelectSeq(KeyOrder, LAMBDA k : k \in DOMAIN x.v))

\* the report built from the parsed model output, or Exception
\* when building it raises (whatever it raises reaches the outer handler)
Restructure(model_output) ==
    LET summary == Get(model_output, "summary", EmptyObj)
        categories == Get(model_output, "categories", EmptyObj)
        overallSeverity == Get(model_output, "overallSeverity", Str("medium"))
    IN  IF summary.t # "obj" \/ categories.t # "obj" \/ overallSeverity.t # "str"
        THEN Exception
        ELSE LET recommendations == Get(summary, "recommendations", List(<<Str("Review carefully.")>>))
                 redFlags == Get(categories, "redFlags", List(<<>>))
                 obligations == Get(categories, "obligations", List(<<>>))
                 rights == Get(categories, "rights", List(<<>>))
             IN  IF \/ JoinRaises(recommendations)
                    \/ RemapRaises(redFlags) \/ RemapRaises(obligations) \/ RemapRaises(rights)
                 THEN Exception
                 ELSE Obj([summary |->
                              Obj([documentType |-> Get(model_output, "documentType", Str("Unknown")),
                                   overallRiskLevel |-> Str(map_severity(overallSeverity.v)),
                                   keyConcerns |-> Get(summary, "mainConcerns",
                                                       List(<<Str("No specific concerns identified.")>>)),
                                   recommendation |-> Str(JoinValue(recommendations))]),
                           redFlags |-> List(remap_report_items(redFlags)),
                           obligations |-> List(remap_report_items(obligations)),
                           rightsAndDataUsage |-> List(remap_report_items(rights))])

\* a provider response: text before, the JSON document, text after; cut
\* characters are missing at the end of the document (a truncated completion)
Content(resp) ==
    LET doc == IF resp.output.t = "null" THEN "" ELSE Dumps(resp.output)
    IN  resp.before \o Prefix(doc, Len(doc) - resp.cut) \o resp.after

\* json.loads(json_result) of a text extracted from the response: the text
\* parses exactly when it is the whole JSON document the response holds
JsonLoads(json_result, resp) ==
    IF resp.output.t = "obj" /\ resp.cut = 0 /\ json_result = Dumps(resp.output)
    THEN resp.output
    ELSE Exception

\* result[start_idx:end_idx] with start_idx = result.find('{') and
\* end_idx = result.rfind('}') + 1
JsonResult(result) ==
    LET start_idx == Find(result, "{")
        end_idx == RFind(result, "}")
    IN  IF end_idx < start_idx THEN "" ELSE SubSeq(result, start_idx, end_idx)

HasJson(result) == Contains(result, "{") /\ Contains(result, "}")

\* whether the completion holds a JSON object that json.loads accepts
Parses(resp) ==
    LET result == strip(Content(resp))
    IN  HasJson(result) /\ JsonLoads(JsonResult(result), resp).t = "obj"

\* free_legal_analysis from result = ....strip() on: the report, or
\* Exception
ProcessCompletion(resp) ==
    LET result == strip(Content(resp))
    IN  IF HasJson(result)
        THEN LET model_output == JsonLoads(JsonResult(result), resp)
             IN  IF model_output.t = "exception" THEN Exception ELSE Restructure(model_output)
        ELSE Exception

(***************************************************************************)
(* Provider responses                                                      *)
(***************************************************************************)
Without(f, key) == [k \in DOMAIN f \ {key} |-> f[k]]

With(f, key, val) == [k \in DOMAIN f \cup {key} |-> IF k = key THEN val ELSE f[k]]

\* the severities a provider writes on an item; None: the item has no severity
ProviderSeverities == <<"high", "Critical", "low", "medium", "unknown", None>>

ProviderItem(n, severity) ==
    LET item == [id |-> Str("rf-" \o ToString(n)),
                 clause |-> Str("Clause " \o ToString(n)),
                 explanation |-> Str("Explanation " \o ToString(n))]
    IN  IF severity = None THEN Obj(item) ELSE Obj(With(item, "severity", Str(severity)))

MaxItems == 2

\* the redFlags lists of at most MaxItems items
ProviderRedFlags ==
    {[i \in 1..Len(q) |-> ProviderItem(i, ProviderSeverities[q[i]])] :
        q \in SeqsUpTo(Len(ProviderSeverities), MaxItems)}

GoodSummary ==
    [keyPoints |-> List(<<Str("Point")>>),
     mainConcerns |-> List(<<Str("Arbitration")>>),
     recommendations |-> List(<<Str("Read it."), Str("Ask a lawyer.")>>)]

GoodCategories ==
    [redFlags |-> List(<<ProviderItem(1, "high")>>),
     obligations |-> List(<<ProviderItem(2, "medium")>>),
     rights |-> List(<<ProviderItem(3, "low")>>),
     terms |-> List(<<>>)]

\* an output of the shape the prompt asks for
GoodOutput ==
    [documentType |-> Str("Terms of Service"),
     riskScore |-> Num(72),
     overallSeverity |-> Str("high"),
     summary |-> Obj(GoodSummary),
     categories |-> Obj(GoodCategories),
     processedAt |-> Str("2025-01-01T00:00:00Z")]

WellFormedOutputs ==
    {Obj(With(GoodOutput, "categories", Obj(With(GoodCategories, "redFlags", List(rf))))) :
        rf \in ProviderRedFlags}

\* outputs that parse but leave a field out or give it another type
MalformedOutputs ==
    {EmptyObj,
     Obj(Without(GoodOutput, "documentType")),
     Obj(With(GoodOutput, "documentType", Num(7))),
     Obj(Without(GoodOutput, "overallSeverity")),
     Obj(With(GoodOutput, "overallSeverity", Null)),
     Obj(Without(GoodOutput, "summary")),
     Obj(With(GoodOutput, "summary", List(<<>>))),
     Obj(With(GoodOutput, "summary", Obj(With(GoodSummary, "mainConcerns", Str("none"))))),
     Obj(With(GoodOutput, "summary", Obj(Without(GoodSummary, "recommendations")))),
     Obj(With(GoodOutput, "summary", Obj(With(GoodSummary, "recommendations", Str("ok"))))),
     Obj(With(GoodOutput, "summary", Obj(With(GoodSummary, "recommendations", List(<<Num(1)>>))))),
     Obj(Without(GoodOutput, "categories")),
     Obj(With(GoodOutput, "categories", Str("none"))),
     Obj(With(GoodOutput, "categories", Obj(With(GoodCategories, "redFlags", Null)))),
     Obj(With(GoodOutput, "categories", Obj(With(GoodCategories, "redFlags", Str("x"))))),
     Obj(With(GoodOutput, "categories", Obj(With(GoodCategories, "redFlags", List(<<Str("c")>>))))),
     Obj(With(GoodOutput, "categories",
              Obj(With(GoodCategories, "rights",
                       List(<<Obj([clause |-> Str("Clause 1"), severity |-> Num(3)])>>))))),
     Obj(With(GoodOutput, "categories",
              Obj(With(GoodCategories, "obligations",
                       List(<<Obj([clause |-> Num(5), severity |-> Str("low")])>>))))),
     Obj(With(GoodOutput, "categories",
              Obj(With(GoodCategories, "redFlags",
                       List(<<Obj([explanation |-> Str("Explanation 1")])>>)))))}

\* what surrounds the JSON document in the completion; none of the texts
\* before holds a "{" that would make the extracted text a document again,
\* none of the texts after a "}" that would
Wrappers ==
    {[before |-> "", after |-> "", cut |-> 0],
     [before |-> "json\n", after |-> "\n---", cut |-> 0],
     [before |-> " Here is the analysis:\n", after |-> "\nHope this helps. ", cut |-> 0],
     [before |-> "Note {draft}: ", after |-> "", cut |-> 0],
     [before |-> "", after |-> " {end}", cut |-> 0],
     [before |-> "", after |-> "", cut |-> 1],
     [before |-> "", after |-> "", cut |-> 2]}

NoResponse == [before |-> "", output |-> Null, after |-> "", cut |-> 0]

Response(w, output) == [before |-> w.before, output |-> output, after |-> w.after, cut |-> w.cut]

\* completions that hold no JSON document
NoJsonResponses ==
    {[before |-> b, output |-> Null, after |-> "", cut |-> 0] :
        b \in {"", "I cannot analyze this document.", "{ unfinished", "} {"}}

ProviderResponses ==
    {Response(NoResponse, o) : o \in WellFormedOutputs}
    \cup {Response(w, o) : w \in {x \in Wrappers : x.cut = 0 /\ ~Contains(x.before \o x.after, "{")},
                           o \in MalformedOutputs}
    \cup {Response(w, Obj(GoodOutput)) : w \in Wrappers}
    \cup NoJsonResponses

\* the documents the workflow is run on (main.py passes request.text.strip())
WorkflowTexts ==
    {PrivacyScenario, NeutralScenario,
     "Terms of Service. You agree to indemnify us. All disputes go to arbitration.",
     "Employment contract. You must work."}

(***************************************************************************)
(* portia_workflow.py run_pactguard_workflow -> free_legal_analysis         *)
(***************************************************************************)
NoWorkflow ==
    [pc |-> "idle", text |-> None, calls |-> 0, resp |-> NoResponse, failure |-> None,
     source |-> None, report |-> Null]

\* result = await free_legal_analysis(document_text, iso_timestamp)
WfBegin(document_text) ==
    /\ wf.pc = "idle"
    /\ wf' = [wf EXCEPT !.pc = "token", !.text = document_text]
    /\ UNCHANGED <<entry, asmVars, toolVars, classifications>>

\* hf_token = os.getenv('HF_TOKEN'); if not hf_token: raise
WfCheckToken(hf_token) ==
    /\ wf.pc = "token"
    /\ wf' = IF hf_token = None \/ hf_token = ""
             THEN [wf EXCEPT !.pc = "except", !.failure = "HF_TOKEN not found"]
             ELSE [wf EXCEPT !.pc = "call"]
    /\ UNCHANGED <<entry, asmVars, toolVars, api, classifications>>

\* client.chat.completions.create(...) raises
WfProviderRaises ==
    /\ wf.pc = "call"
    /\ wf' = [wf EXCEPT !.pc = "except", !.calls = @ + 1, !.failure = "client raised"]
    /\ UNCHANGED <<entry, asmVars, toolVars, api, classifications>>

\* client.chat.completions.create(...) returns a completion
WfProviderReturns(resp) ==
    /\ wf.pc = "call"
    /\ wf' = [wf EXCEPT !.pc = "completion", !.calls = @ + 1, !.resp = resp]
    /\ UNCHANGED <<entry, asmVars, toolVars, api, classifications>>

\* why handling the completion raised
Failure(resp) ==
    IF ~HasJson(strip(Content(resp))) THEN "No JSON found"
    ELSE IF ~Parses(resp) THEN "JSON does not parse"
    ELSE "re-structuring failed"

\* from result = ....strip() to return json.dumps(report), or to the raise
WfProcessCompletion ==
    /\ wf.pc = "completion"
    /\ LET report == ProcessCompletion(wf.resp)
       IN  wf' = IF report.t = "exception"
                 THEN [wf EXCEPT !.pc = "except", !.failure = Failure(wf.resp)]
                 ELSE [wf EXCEPT !.pc = "returned", !.source = "provider", !.report = report]
    /\ UNCHANGED <<entry, asmVars, toolVars, api, classifications>>

\* an except branch that calls the provider again instead of falling back
WfFallback_Retry(risk_score) ==
    /\ wf.pc = "except"
    /\ wf.calls <= 1
    /\ wf' = [wf EXCEPT !.pc = "call"]
    /\ UNCHANGED <<entry, asmVars, toolVars, api, classifications>>

\* except Exception: return generate_demo_analysis(document_text, iso_timestamp);
\* risk_score is what random.randint draws
WfFallback(risk_score) ==
    /\ wf.pc = "except"
    /\ risk_score \in DemoDocType(wf.text).lo..DemoDocType(wf.text).hi
    /\ LET report == generate_demo_analysis(wf.text, risk_score)
       IN  /\ wf' = [wf EXCEPT !.pc = "returned", !.source = "demo", !.report = report]
           /\ classifications' = Append(classifications,
                  Classification("demo_analysis", wf.text,
                                 report.v.summary.v.documentType.v, <<>>))
    /\ UNCHANGED <<entry, asmVars, toolVars, api>>

Severities == {"Low", "Medium", "High", "Critical"}

IsStr(x) == x.t = "str"

\* main.py ReportItem
ValidReportItem(x) ==
    /\ x.t = "obj"
    /\ {"severity", "title", "explanation", "originalClause"} \subseteq DOMAIN x.v
    /\ IsStr(x.v.severity) /\ x.v.severity.v \in Severities
    /\ IsStr(x.v.title) /\ IsStr(x.v.explanation) /\ IsStr(x.v.originalClause)

ValidItems(x) == x.t = "list" /\ \A i \in 1..Len(x.v) : ValidReportItem(x.v[i])

\* main.py AnalysisSummary
ValidSummary(x) ==
    /\ x.t = "obj"
    /\ {"documentType", "overallRiskLevel", "keyConcerns", "recommendation"} \subseteq DOMAIN x.v
    /\ IsStr(x.v.documentType)
    /\ IsStr(x.v.overallRiskLevel) /\ x.v.overallRiskLevel.v \in Severities
    /\ x.v.keyConcerns.t = "list" /\ \A i \in 1..Len(x.v.keyConcerns.v) : IsStr(x.v.keyConcerns.v[i])
    /\ IsStr(x.v.recommendation)

\* main.py PactGuardAnalysisReport
ValidReport(x) ==
    /\ x.t = "obj"
    /\ {"summary", "redFlags", "obligations", "rightsAndDataUsage"} \subseteq DOMAIN x.v
    /\ ValidSummary(x.v.summary)
    /\ ValidItems(x.v.redFlags) /\ ValidItems(x.v.obligations) /\ ValidItems(x.v.rightsAndDataUsage)

(***************************************************************************)
(* The HTTP entry points                                                   *)
(***************************************************************************)
\* no HTTP request is being served
NoCall ==
    [pc |-> "idle", served |-> 0, text |-> None, source |-> None, status_code |-> 0,
     detail |-> None, body |-> Null]

\* not request.text or not request.text.strip()
Blank(text) == Len(strip(text)) = 0

\* the answer of a handler: a status code with an error detail or a body
Answer(text, source, status_code, detail, body) ==
    [pc |-> "done", served |-> api.served + 1, text |-> text, source |-> source,
     status_code |-> status_code, detail |-> detail, body |-> body]

(***************************************************************************)
(* main.py and app/main.py                                                 *)
(***************************************************************************)
\* main.py analyze_document_text up to the await of the workflow.  The
\* HTTPException of the empty-text check is raised inside the try, and
\* HTTPException is an Exception: the except Exception branch catches it and
\* raises a 500 whose detail holds str(e), which depends on the Starlette
\* version
MainAnalyze(text, str_e) ==
    /\ api.pc \in {"idle", "done"}
    /\ IF Blank(text)
       THEN /\ api' = Answer(text, None, 500, "Analysis failed: " \o str_e, Null)
            /\ UNCHANGED <<entry, asmVars, toolVars, wf, classifications>>
       ELSE /\ api' = [api EXCEPT !.pc = "core", !.text = text]
            /\ WfBegin(strip(text))

\* main.py after the await: json.loads gives back the report json.dumps was
\* applied to (its values are strings, lists and dicts), which is returned
MainReturn ==
    /\ api.pc = "core"
    /\ wf.pc = "returned"
    /\ api' = Answer(api.text, wf.source, 200, None, wf.report)
    /\ wf' = NoWorkflow
    /\ UNCHANGED <<entry, asmVars, toolVars, classifications>>

\* app/main.py, the /analyze route of the app served (lines 96-130), up to the
\* await: request.text goes to the workflow as it is
AppWorkflowAnalyze(text) ==
    /\ api.pc \in {"idle", "done"}
    /\ api' = [api EXCEPT !.pc = "core", !.text = text]
    /\ WfBegin(text)

\* ... and after it: AnalysisResult(**result_data) validates the report
\* against the model of lines 65-71; a ValidationError becomes a 500
AppWorkflowReturn ==
    /\ api.pc = "core"
    /\ wf.pc = "returned"
    /\ api' = IF {"documentType", "riskScore", "overallSeverity", "summary", "categories",
                  "processedAt"} \subseteq DOMAIN wf.report.v
              THEN Answer(api.text, wf.source, 200, None, wf.report)
              ELSE Answer(api.text, None, 500,
                          "AI model output did not match required format.", Null)
    /\ wf' = NoWorkflow
    /\ UNCHANGED <<entry, asmVars, toolVars, classifications>>

\* app/main.py analyze_document of lines 131-145 (its decorator is the right
\* operand of the raise on line 130, so it is a plain function): the request
\* goes to assembly_line.analyze_document as it is
AppAnalyze(text) ==
    /\ api.pc \in {"idle", "done"}
    /\ api' = [api EXCEPT !.pc = "core", !.text = text]
    /\ Begin(text)

\* ... return result
AppReturn ==
    /\ api.pc = "core"
    /\ pc = "idle"
    /\ api' = Answer(api.text, "assembly_line", 200, None, response)
    /\ UNCHANGED <<entry, asmVars, toolVars, wf, classifications>>

(***************************************************************************)
(* services/pactguard_portia_google.py and main_portia.py                  *)
(***************************************************************************)
\* the global portia_client after initialize_portia: None, an object whose
\* initialization failed, or an initialized object
PortiaClients ==
    {[present |-> FALSE, initialized |-> FALSE, portia |-> FALSE],
     [present |-> TRUE, initialized |-> FALSE, portia |-> FALSE],
     [present |-> TRUE, initialized |-> TRUE, portia |-> TRUE]}

\* what self.portia.run(legal_task) does: it raises, or returns a plan run
\* with an id (None when it has none) and a final output
PlanRuns ==
    {[raises |-> TRUE, error |-> "Connection refused", id |-> Null, final_output |-> ""]}
    \cup {[raises |-> FALSE, error |-> "", id |-> id, final_output |-> final_output] :
            id \in {Null, Str("run_1700000000")},
            final_output \in
                {"**OVERALL RISK SCORE: 7/10 (HIGH RISK)** Liability waiver, data privacy and termination concerns.",
                 "Risk score: 12. Unacceptable.",
                 "The agreement looks balanced; medium risk.",
                 "Risk score: 0",
                 "Critical exposure for the customer.",
                 "This is a high risk agreement.",
                 "Medium concerns only.",
                 ""}}

\* a run_legal_analysis that lets the exception of the call escape
run_legal_analysis_Raising(client, plan_run, timestamp) == Exception

\* PactGuardPortiaGoogle.run_legal_analysis
run_legal_analysis(client, plan_run, timestamp) ==
    IF ~client.initialized \/ ~client.portia
    THEN Obj([status |-> Str("failed"), error |-> Str("Portia not initialized")])
    ELSE IF plan_run.raises
    THEN Obj([status |-> Str("error"), error |-> Str(plan_run.error),
              portia_used |-> [t |-> "bool", v |-> FALSE]])
    ELSE Obj([status |-> Str("success"),
              portia_used |-> [t |-> "bool", v |-> TRUE],
              plan_run_id |-> plan_run.id,
              analysis_result |-> Str(plan_run.final_output),
              timestamp |-> Str(timestamp)])

\* re.search(r'(?:risk score[:\s]*|overall[^:]*:[^\d]*)(\d+)(?:/10)?', s):
\* group(1) of the leftmost match, None without a match
RiskMatch(s) ==
    LET IsDigit(i) == i <= Len(s) /\ Contains(Digits, CharAt(s, i))
        Least(S) == CHOOSE x \in S : \A y \in S : x <= y
        StartsWith(i, k) == i + Len(k) - 1 <= Len(s) /\ SubSeq(s, i, i + Len(k) - 1) = k
        Skipped(i) == i <= Len(s) /\ CharAt(s, i) \in Whitespace \cup {":"}
        \* the index where the digits of the group start, 0 without a match at i
        Alt1(i) ==
            IF ~StartsWith(i, "risk score") THEN 0
            ELSE LET j == Least({j \in (i + 10)..(Len(s) + 1) : ~Skipped(j)})
                 IN  IF IsDigit(j) THEN j ELSE 0
        Alt2(i) ==
            IF ~StartsWith(i, "overall") THEN 0
            ELSE LET colons == {c \in (i + 7)..Len(s) : CharAt(s, c) = ":"}
                     digits == IF colons = {} THEN {}
                               ELSE {d \in (Least(colons) + 1)..Len(s) : IsDigit(d)}
                 IN  IF digits = {} THEN 0 ELSE Least(digits)
        Group(i) == IF Alt1(i) # 0 THEN Alt1(i) ELSE Alt2(i)
        hits == {i \in 1..Len(s) : Group(i) # 0}
    IN  IF hits = {} THEN None
        ELSE LET g == Group(Least(hits))
                 end == Least({j \in (g + 1)..(Len(s) + 1) : ~IsDigit(j)})
             IN  SubSeq(s, g, end - 1)

\* an extracted score taken as it is
Clamp_AsExtracted(risk_score_value) == risk_score_value

\* max(1, min(10, risk_score_value))
Clamp(risk_score_value) ==
    Max(1, IF risk_score_value <= 10 THEN risk_score_value ELSE 10)

\* the body of parse_portia_analysis, which reads portia_result only; id is
\* the uuid4 drawn, timestamp the datetime.now()
PortiaReport(portia_result, id, timestamp) ==
    LET first == Get(portia_result, "analysis_result", Str("")).v
        analysis_text == IF Len(first) > 0 THEN first
                         ELSE Get(portia_result, "result", Str("")).v
        analysis_lower == lower(analysis_text)
        has(k) == Contains(analysis_lower, k)
        risk_match == RiskMatch(analysis_lower)
        risk_score_value ==
            IF risk_match # None
            THEN Clamp(DigitsValue(risk_match))
            ELSE IF has("extremely high") \/ has("critical") \/ has("unacceptable") THEN 9
            ELSE IF has("high risk") \/ has("9/10") \/ has("8/10") THEN 7
            ELSE IF has("medium risk") \/ has("moderate risk") \/ has("6/10") \/ has("7/10")
            THEN 6
            ELSE IF has("medium") \/ has("5/10") THEN 5
            ELSE 3
        risk_score ==
            IF risk_score_value >= 8
            THEN [level |-> risk_score_value, label |-> "Critical", color |-> "#dc2626"]
            ELSE IF risk_score_value >= 7
            THEN [level |-> risk_score_value, label |-> "High", color |-> "#ea580c"]
            ELSE IF risk_score_value >= 6
            THEN [level |-> risk_score_value, label |-> "Medium-High", color |-> "#d97706"]
            ELSE IF risk_score_value >= 4
            THEN [level |-> risk_score_value, label |-> "Medium", color |-> "#ca8a04"]
            ELSE [level |-> risk_score_value, label |-> "Low", color |-> "#16a34a"]
        LegalConcern(cid, title, severity, category) ==
            [id |-> cid, title |-> title, severity |-> severity, category |-> category]
        concerns ==
            (IF has("liability")
             THEN <<LegalConcern("liability-risk-1", "Liability Waiver Concerns",
                                 IF risk_score_value >= 8 THEN "critical" ELSE "high", "legal")>>
             ELSE <<>>)
            \o (IF has("data") \/ has("privacy")
                THEN <<LegalConcern("privacy-risk-1", "Data Privacy Issues",
                                    IF risk_score_value < 6 THEN "medium" ELSE "high",
                                    "compliance")>>
                ELSE <<>>)
            \o (IF has("termination")
                THEN <<LegalConcern("termination-risk-1", "Termination Clause Risk",
                                    "medium", "operational")>>
                ELSE <<>>)
    IN  [id |-> id,
         timestamp |-> timestamp,
         document_type |-> "Legal Agreement",
         risk_score |-> risk_score,
         executive_summary |->
             "Document analysis completed using Portia AI. Risk level: " \o risk_score.label
                 \o ". Key findings from AI analysis: " \o Prefix(analysis_text, 200) \o "...",
         legal_concerns |->
             IF Len(concerns) = 0
             THEN <<LegalConcern("general-risk-1", "Contract Analysis Required",
                                 "medium", "legal")>>
             ELSE concerns,
         business_impact |-> <<"Financial Risk", "Legal Compliance">>,
         recommendations |-> <<"rec-1", "rec-2">>,
         portia_integration |->
             [status |-> Get(portia_result, "status", Str("unknown")).v,
              plan_run_id |-> Get(portia_result, "plan_run_id", Null),
              llm_provider |-> "Google AI (Gemini)",
              analysis_timestamp |-> Get(portia_result, "timestamp", Null),
              portia_used |-> TRUE,
              billing_generated |-> Get(portia_result, "plan_run_generated",
                                        [t |-> "bool", v |-> FALSE]).v]]

\* a parse_portia_analysis that quotes the document in the summary
parse_portia_analysis_QuotesDocument(portia_result, document_text, id, timestamp) ==
    [PortiaReport(portia_result, id, timestamp) EXCEPT
        !.executive_summary = @ \o " Document: " \o Prefix(document_text, ExcerptLen)]

\* parse_portia_analysis(portia_result, document_text): document_text is a
\* parameter the function never reads
parse_portia_analysis(portia_result, document_text, id, timestamp) ==
    PortiaReport(portia_result, id, timestamp)

\* main_portia.py analyze_document: the whole handler, which has no await
PortiaAnalyze(text, client, plan_run) ==
    /\ api.pc \in {"idle", "done"}
    /\ LET used == client.present /\ client.initialized
           portia_result == run_legal_analysis(client, plan_run, ToString(now))
           raised == used /\ portia_result.t = "exception"
           success == used /\ ~raised /\ portia_result.v.status.v = "success"
           fallback_result ==
               IF used
               THEN Obj([analysis_result |->
                             Str("Analysis attempted with Portia. Issue encountered: "
                                 \o Get(portia_result, "error", Str("Processing error")).v),
                         status |-> Str("partial")])
               ELSE Obj([analysis_result |->
                             Str("Legal document analysis completed with fallback processing. Portia integration unavailable."),
                         status |-> Str("fallback")])
       IN  IF Blank(text)
           THEN /\ api' = Answer(text, None, 400, "Document text is required", Null)
                /\ UNCHANGED uuids
           ELSE IF raised
           THEN /\ api' = Answer(text, None, 500,
                                 "An unexpected error occurred during analysis.", Null)
                /\ UNCHANGED uuids
           ELSE /\ api' = Answer(text, IF success THEN "portia" ELSE "portia_fallback", 200, None,
                                 parse_portia_analysis(
                                     IF success THEN portia_result ELSE fallback_result,
                                     text, uuid4(uuids + 1), ToString(now)))
                /\ uuids' = uuids + 1
    /\ UNCHANGED <<entry, now, processing_steps, requests, pc, req, response, request_log,
                   toolVars, wf, classifications>>

(***************************************************************************)
(* Specifications                                                          *)
(***************************************************************************)
InitAt(e) ==
    /\ entry = e
    /\ now = 0
    /\ uuids = 0
    /\ processing_steps = <<>>
    /\ requests = 0
    /\ pc = "idle"
    /\ req = NoRequest
    /\ response = None
    /\ request_log = <<>>
    /\ tool_pc = "idle"
    /\ tool = NoTool
    /\ wf = NoWorkflow
    /\ api = NoCall
    /\ classifications = <<>>

InitWorkflow == InitAt("run_pactguard_workflow")

NextWorkflow ==
    \/ \E document_text \in WorkflowTexts : WfBegin(document_text) /\ UNCHANGED api
    \/ \E hf_token \in {None, "", "hf_token"} : WfCheckToken(hf_token)
    \/ WfProviderRaises
    \/ \E resp \in ProviderResponses : WfProviderReturns(resp)
    \/ WfProcessCompletion
    \/ \E risk_score \in 40..90 : WfFallback(risk_score)

SpecWorkflow == InitWorkflow /\ [][NextWorkflow]_vars

\* The event loop runs every step of the coroutine that is possible, so each
\* step of free_legal_analysis itself is weakly fair. WfProcessCompletion is
\* enabled exactly when wf.pc = "completion" and WfFallback exactly when
\* wf.pc = "except" (DemoDocType's range lies in 40..90), and each of them
\* leaves its place, so WF_vars(WfProcessCompletion) is []<>(wf.pc # "completion")
\* and WF_vars(\E r \in 40..90 : WfFallback(r)) is []<>(wf.pc # "except"); they
\* are stated in that form, which needs no successor to be computed.
\* Whether client.chat.completions.create ever returns or raises is up to the
\* provider: InferenceClient(api_key=hf_token) is built without a timeout and
\* the call is not wrapped in one, so WfProviderRaises and WfProviderReturns
\* get no fairness and the code has no step of its own that leaves the call.
SpecWorkflowLive ==
    /\ SpecWorkflow
    /\ WF_vars(\E hf_token \in {None, "", "hf_token"} : WfCheckToken(hf_token))
    /\ []<>(wf.pc # "completion")
    /\ []<>(wf.pc # "except")

(***************************************************************************)
(* The service: requests served one after the other by the singleton       *)
(* assembly_line while the clock advances, and the tool chain ending in    *)
(* ReportGenerationTool.run on the steps it is handed.                     *)
(***************************************************************************)
MaxRequests == 2

\* the clock advances in ticks of Tick ms; a request takes at most
\* MaxRequestTicks of them
Tick == 36

MaxRequestTicks == 1

StageDurations == {k * Tick : k \in 0..MaxRequestTicks}

InBudget(d) == now + d - req.start_time <= MaxRequestTicks * Tick

\* the durations a caller of ReportGenerationTool.run writes on the steps
ToolDurations == <<"0.04s", "0.12s", "1.50s", "fast", "s">>

MaxToolSteps == 2

ToolStepLists ==
    {[i \in 1..Len(q) |->
        [agent |-> "Agent " \o ToString(i), status |-> COMPLETED,
         duration |-> ToolDurations[q[i]], confidence |-> 90]] :
        q \in SeqsUpTo(Len(ToolDurations), MaxToolSteps)}

MaxHandedClauses == 2

\* the clause lists a caller hands RiskAnalysisTool.run
HandedClauseLists ==
    LET types == <<"obligation", "risk", "general", "penalty", "RISK">>
    IN  {[i \in 1..Len(q) |->
            [id |-> uuid4(i), text |-> "You must pay all fees", section |-> "General Terms",
             type |-> types[q[i]]]] :
            q \in SeqsUpTo(Len(types), MaxHandedClauses)}

Init == \E e \in {"assembly_line", "tools"} : InitAt(e)

Next ==
    \/ entry = "assembly_line" /\ requests < MaxRequests /\ \E text \in ServiceTexts : Begin(text) /\ UNCHANGED api
    \/ \E d \in StageDurations : InBudget(d) /\ DocumentIngestion(d)
    \/ \E d \in StageDurations : InBudget(d) /\ LegalClassification(d)
    \/ \E d \in StageDurations : InBudget(d) /\ ClauseExtraction(d)
    \/ \E d \in StageDurations : InBudget(d) /\ RiskAnalysis(d)
    \/ \E d \in StageDurations : InBudget(d) /\ PlainEnglishTranslation(d)
    \/ \E d \in StageDurations : InBudget(d) /\ ReportGeneration(d)
    \/ entry = "tools" /\ tool_pc = "idle" /\ \E text \in ServiceTexts : ToolBegin(text)
    \/ ToolDocumentIngestion
    \/ ToolLegalClassification
    \/ ToolClauseExtraction
    \/ ToolRiskAnalysis
    \/ \E extracted_clauses \in HandedClauseLists : ToolRiskAnalysisOn(extracted_clauses)
    \/ ToolPlainEnglishTranslation
    \/ \E steps \in ToolStepLists : ToolReportGeneration(steps)

Spec == Init /\ [][Next]_vars

(***************************************************************************)
(* The rule-based pipelines on one document each, over a wide set of       *)
(* documents; no time passes.                                              *)
(***************************************************************************)
NextRules ==
    \/ entry = "assembly_line" /\ requests = 0 /\ \E text \in Texts : Begin(text) /\ UNCHANGED api
    \/ DocumentIngestion(0)
    \/ LegalClassification(0)
    \/ ClauseExtraction(0)
    \/ RiskAnalysis(0)
    \/ PlainEnglishTranslation(0)
    \/ ReportGeneration(0)
    \/ entry = "tools" /\ tool_pc = "idle" /\ \E text \in Texts : ToolBegin(text)
    \/ ToolDocumentIngestion
    \/ ToolLegalClassification
    \/ ToolClauseExtraction
    \/ ToolRiskAnalysis
    \/ ToolPlainEnglishTranslation

SpecRules == Init /\ [][NextRules]_vars

(***************************************************************************)
(* Every entry point, serving a few requests one after the other over a    *)
(* small set of texts, two of them blank; no time passes.                  *)
(***************************************************************************)
MaxServiceRequests == 3

RequestTexts == {"", " \n ", PrivacyScenario, NeutralScenario}

\* the texts handed to the rule-based pipelines
PipelineTexts == RequestTexts \cup {MixedScenario}

\* a well-formed completion, one whose document lacks every field, and one
\* without a document
ServiceResponses ==
    {Response(NoResponse, Obj(GoodOutput)),
     Response(NoResponse, EmptyObj),
     [before |-> "I cannot analyze this document.", output |-> Null, after |-> "", cut |-> 0]}

InitService ==
    \E e \in {"main", "app_main", "analyze_document", "main_portia", "tools"} : InitAt(e)

NextService ==
    \/ /\ entry = "main"
       /\ api.served < MaxServiceRequests
       /\ \E text \in RequestTexts, str_e \in {"", "400: Document text is required"} :
              MainAnalyze(text, str_e)
    \/ entry = "main" /\ MainReturn
    \/ /\ entry = "app_main"
       /\ api.served < MaxServiceRequests
       /\ \E text \in RequestTexts : AppWorkflowAnalyze(text)
    \/ entry = "app_main" /\ AppWorkflowReturn
    \/ \E hf_token \in {None, "hf_token"} : WfCheckToken(hf_token)
    \/ WfProviderRaises
    \/ \E resp \in ServiceResponses : WfProviderReturns(resp)
    \/ WfProcessCompletion
    \/ \E risk_score \in {45, 65, 75, 85} : WfFallback(risk_score)
    \/ /\ entry = "analyze_document"
       /\ api.served < MaxServiceRequests
       /\ \E text \in PipelineTexts : AppAnalyze(text)
    \/ DocumentIngestion(0)
    \/ LegalClassification(0)
    \/ ClauseExtraction(0)
    \/ RiskAnalysis(0)
    \/ PlainEnglishTranslation(0)
    \/ ReportGeneration(0)
    \/ entry = "analyze_document" /\ AppReturn
    \/ /\ entry = "main_portia"
       /\ api.served < MaxServiceRequests
       /\ \E text \in RequestTexts, client \in PortiaClients, plan_run \in PlanRuns :
              PortiaAnalyze(text, client, plan_run)
    \/ /\ entry = "tools"
       /\ Len(classifications) < MaxServiceRequests
       /\ \E text \in PipelineTexts : ToolBegin(text)
    \/ ToolDocumentIngestion
    \/ ToolLegalClassification
    \/ ToolClauseExtraction
    \/ ToolRiskAnalysis
    \/ ToolPlainEnglishTranslation
    \/ \E steps \in ToolStepLists : ToolReportGeneration(steps)

SpecService == InitService /\ [][NextService]_vars

(***************************************************************************)
(* Properties of run_pactguard_workflow                                    *)
(***************************************************************************)
ProviderCallFailures ==
    {"HF_TOKEN not found", "client raised", "No JSON found", "JSON does not parse"}

\* C1: whenever the provider call inside free_legal_analysis fails (HF_TOKEN
\* missing, the client raising, a completion with no JSON object, extracted
\* JSON that does not parse), the workflow raises nothing: it returns, and
\* what it returns is a report valid against the report schema.
C1_FailureReturnsValidReport ==
    /\ wf.failure \in ProviderCallFailures => wf.pc \in {"except", "returned"}
    /\ (wf.pc = "returned" /\ wf.failure \in ProviderCallFailures)
           => wf.source = "demo" /\ ValidReport(wf.report)

C1_Witness ==
    /\ wf.pc = "returned"
    /\ wf.failure = "JSON does not parse"
    /\ wf.resp.cut > 0
    /\ ValidReport(wf.report)

\* an item of a category in the output format of the prompt
MatchesItem(x) ==
    /\ x.t = "obj"
    /\ \A key \in {"id", "clause", "explanation", "severity"} :
           key \in DOMAIN x.v /\ IsStr(x.v[key])

\* the output format the prompt of free_legal_analysis asks for
MatchesTargetSchema(o) ==
    /\ o.t = "obj"
    /\ {"documentType", "riskScore", "overallSeverity", "summary", "categories", "processedAt"}
           \subseteq DOMAIN o.v
    /\ IsStr(o.v.documentType) /\ o.v.riskScore.t = "num" /\ IsStr(o.v.overallSeverity)
    /\ IsStr(o.v.processedAt)
    /\ o.v.summary.t = "obj"
    /\ \A key \in {"keyPoints", "mainConcerns", "recommendations"} :
           /\ key \in DOMAIN o.v.summary.v
           /\ o.v.summary.v[key].t = "list"
           /\ \A i \in 1..Len(o.v.summary.v[key].v) : IsStr(o.v.summary.v[key].v[i])
    /\ o.v.categories.t = "obj"
    /\ \A key \in {"redFlags", "obligations", "rights", "terms"} :
           /\ key \in DOMAIN o.v.categories.v
           /\ o.v.categories.v[key].t = "list"
           /\ \A i \in 1..Len(o.v.categories.v[key].v) : MatchesItem(o.v.categories.v[key].v[i])

\* C2: when the completion holds a JSON object that parses but does not match
\* the target schema (a required field missing or of another type), the
\* report returned is the one generate_demo_analysis produces.
C2_MismatchReturnsFallback ==
    (wf.pc = "returned" /\ Parses(wf.resp) /\ ~MatchesTargetSchema(wf.resp.output))
        => wf.source = "demo"

\* C4: every redFlags entry of a report the workflow returns, built from the
\* provider's response or by the fallback, has severity High or Critical.
C4_ReturnedRedFlagsHighOrCritical ==
    wf.pc = "returned" =>
        \A i \in 1..Len(wf.report.v.redFlags.v) :
            wf.report.v.redFlags.v[i].v.severity.v \in {"High", "Critical"}

(***************************************************************************)
(* Properties of the rule-based pipelines                                  *)
(***************************************************************************)
\* analyze_document has returned its report
Returned == pc = "idle" /\ requests > 0

\* RiskAnalysisTool.run has returned its result
ToolAnalysed == tool_pc \in {"translation", "report", "done", "ToolHardError"}

HighOrCritical(red_flags) ==
    \A i \in 1..Len(red_flags) : red_flags[i].severity \in {"High", "Critical"}

\* C3: every red flag of the rule-based pipeline (the report of
\* assembly_line.analyze_document, the result of RiskAnalysisTool) has
\* severity High or Critical, never Low or Medium.
C3_RuleBasedRedFlagsHigh ==
    /\ HighOrCritical(req.red_flags)
    /\ Returned => HighOrCritical(response.red_flags)
    /\ ToolAnalysed => HighOrCritical(tool.risk.red_flags)

C3_Witness ==
    /\ Returned
    /\ Len(response.red_flags) > 0
    /\ response.red_flags[1].severity = HIGH

\* C5: clause extraction returns at most its cap of clauses (20 from
\* ClauseExtractionTool._extract_clauses, 15 from
\* PactGuardAssemblyLine._clause_extraction) whatever the number of sentences,
\* and the three finding collections together hold at most that many entries.
C5_ClauseCap ==
    /\ Len(req.extracted_clauses) <= AsmClauseCap
    /\ Len(req.obligations) + Len(req.rights_data_usage) + Len(req.red_flags) <= AsmClauseCap
    /\ Len(tool.extracted_clauses) <= ToolClauseCap
    /\ ToolAnalysed =>
           Len(tool.risk.obligations) + Len(tool.risk.rights_and_data_usage)
               + Len(tool.risk.red_flags) <= ToolClauseCap

C5_Witness ==
    /\ ToolAnalysed
    /\ Len(split(tool.normalized_text, ". ")) > ToolClauseCap
    /\ Len(tool.extracted_clauses) = ToolClauseCap
    /\ Len(tool.risk.obligations) = ToolClauseCap

\* the keywords of the classifier groups
ClassifierKeywords ==
    <<"terms of service", "terms of use", "user agreement", "privacy policy",
      "data collection", "personal information", "employment agreement",
      "employment contract", "software license", "mit license", "gpl", "apache">>

\* the text holds no keyword of a classifier group nor of the risk, data-usage
\* or obligation sets (the tools' keywords are among those of the assembly line)
NoKeyword(text) ==
    ~AnyIn(ClassifierKeywords \o risk_keywords \o data_keywords \o obligation_keywords,
           lower(text))

\* C9: for a text without any keyword the rule-based pipeline reports document
\* type Unknown, no obligation, no right or data usage, no red flag, overall
\* risk Low and sentiment Positive.
C9_NoKeywordReport ==
    /\ (Returned /\ NoKeyword(req.text)) =>
           /\ response.summary.documentType = UNKNOWN
           /\ Len(response.obligations) = 0
           /\ Len(response.rights_and_data_usage) = 0
           /\ Len(response.red_flags) = 0
           /\ response.summary.riskLevel = LOW
           /\ response.summary.sentiment = POSITIVE
    /\ (tool_pc = "report" /\ NoKeyword(tool.text)) =>
           /\ tool.summary.documentType = UNKNOWN
           /\ Len(tool.risk.obligations) = 0
           /\ Len(tool.risk.rights_and_data_usage) = 0
           /\ Len(tool.risk.red_flags) = 0
           /\ tool.risk.overall_risk = LOW
           /\ tool.summary.riskLevel = LOW
           /\ tool.summary.sentiment = POSITIVE

C9_Witness ==
    /\ tool_pc = "report"
    /\ tool.text = NeutralScenario
    /\ NoKeyword(tool.text)
    /\ tool.summary.sentiment = POSITIVE

\* C10: for the privacy policy scenario the rule-based pipeline reports
\* document type Privacy Policy, at least one red flag, at least one right or
\* data usage, and overall risk High.
C10_PrivacyScenarioReport ==
    /\ (Returned /\ req.text = PrivacyScenario) =>
           /\ response.summary.documentType = PRIVACY_POLICY
           /\ Len(response.red_flags) >= 1
           /\ Len(response.rights_and_data_usage) >= 1
           /\ response.summary.riskLevel = HIGH
    /\ (tool_pc = "report" /\ tool.text = PrivacyScenario) =>
           /\ tool.summary.documentType = PRIVACY_POLICY
           /\ Len(tool.risk.red_flags) >= 1
           /\ Len(tool.risk.rights_and_data_usage) >= 1
           /\ tool.risk.overall_risk = HIGH

(***************************************************************************)
(* Properties of the reports of the service                                *)
(***************************************************************************)
\* the time a total_processing_time states, in ms
TotalSeconds(ai_assembly_line) == ParseFloat(remove(ai_assembly_line.total_processing_time, "s"))

\* C6: in every returned report total_processing_time equals the sum of the
\* durations of the processing_steps of that report, each parsed by stripping
\* its unit suffix.
C6_TotalIsSumOfSteps ==
    /\ Returned =>
           TotalSeconds(response.ai_assembly_line)
               = SumSeconds(response.ai_assembly_line.processing_steps)
    /\ tool_pc = "done" =>
           TotalSeconds(tool.final_report.ai_assembly_line)
               = SumSeconds(tool.final_report.ai_assembly_line.processing_steps)

StageNames ==
    <<"Document Ingestion", "Legal Classification", "Clause Extraction",
      "Risk Analysis", "Plain English Translation", "Report Generation">>

\* the fixed confidences of the stages, in hundredths
StageConfidences == <<95, 92, 89, 87, 91, 93>>

\* C7: the processing_steps of the report of one call of analyze_document are
\* exactly six, one per stage in execution order, each completed and with the
\* stage's fixed confidence.
C7_SixStepsInOrder ==
    Returned =>
        LET steps == response.ai_assembly_line.processing_steps
        IN  /\ Len(steps) = Len(StageNames)
            /\ \A i \in 1..Len(steps) :
                   /\ steps[i].agent = StageNames[i]
                   /\ steps[i].status = COMPLETED
                   /\ steps[i].confidence = StageConfidences[i]

\* how many entries of steps equal step
Count(steps, step) == Cardinality({i \in 1..Len(steps) : steps[i] = step})

\* C8: the processing_steps of a request's report contain only steps recorded
\* during that request: no step occurs more often in the report than it was
\* recorded since the request began.
C8_StepsAreRequestLocal ==
    Returned =>
        LET steps == response.ai_assembly_line.processing_steps
        IN  \A i \in 1..Len(steps) : Count(steps, steps[i]) <= Count(request_log, steps[i])

(***************************************************************************)
(* Properties of classification                                            *)
(***************************************************************************)
\* the keyword groups of PactGuardAssemblyLine._legal_classification and of
\* LegalClassificationTool._classify_document_type, in the order of the claim
AsmGroups ==
    <<<<"terms of service", "terms of use", "user agreement">>,
      <<"privacy policy", "data collection", "personal information">>,
      <<"employment agreement", "employment contract">>,
      <<"software license", "mit license", "gpl", "apache">>>>

ToolGroups ==
    <<<<"terms of service", "terms of use">>,
      <<"privacy policy", "data collection">>,
      <<"employment agreement", "employment contract">>,
      <<"software license", "mit license">>>>

GroupTypes == <<TERMS_OF_SERVICE, PRIVACY_POLICY, EMPLOYMENT_CONTRACT, SOFTWARE_LICENSE>>

\* type is the type of the earliest group with a keyword in the text, or
\* Unknown when no group has one
EarliestGroupDecides(groups, text, type) ==
    LET hit == {g \in 1..Len(groups) : AnyIn(groups[g], lower(text))}
    IN  /\ \A g \in hit : (\A h \in hit : g <= h) => type = GroupTypes[g]
        /\ hit = {} => type = UNKNOWN

AsmClassified == pc \in {"extraction", "analysis", "translation", "report"}

ToolClassified == tool_pc \in {"extraction", "analysis", "translation", "report"}

\* C13: both classifiers give a text the type of the earliest of the groups
\* TermsOfService, PrivacyPolicy, EmploymentContract, SoftwareLicense that has a
\* keyword occurring case-insensitively in the text, and Unknown when no group
\* has one; classification never fails.
C13_EarliestGroupDecides ==
    /\ AsmClassified =>
           EarliestGroupDecides(AsmGroups, req.normalized_text, req.document_type)
    /\ ToolClassified =>
           EarliestGroupDecides(ToolGroups, tool.normalized_text, tool.document_type)

C13_Witness ==
    /\ AsmClassified
    /\ Contains(lower(req.normalized_text), "privacy policy")
    /\ Contains(lower(req.normalized_text), "terms of service")
    /\ req.document_type = TERMS_OF_SERVICE

(***************************************************************************)
(* Properties of the findings                                              *)
(***************************************************************************)
ExcerptsWithin(findings, n) == \A i \in 1..Len(findings) : Len(findings[i].clause) <= n

\* C20: the clause excerpt of every Obligation, RightAndDataUsage and RedFlag
\* of the rule-based pipelines is at most 200 characters long, whatever the
\* length of the clause.
C20_ExcerptAtMost200 ==
    /\ ExcerptsWithin(req.obligations \o req.rights_data_usage \o req.red_flags, ExcerptLen)
    /\ ToolAnalysed =>
           ExcerptsWithin(tool.risk.obligations \o tool.risk.rights_and_data_usage
                              \o tool.risk.red_flags, ExcerptLen)

\* the clause categories of the specification
ClauseCategories == {"risk", "data_usage", "obligation", "general"}

\* C18: risk analysis fails fast on a malformed clause: RiskAnalysisTool.run
\* returns a result only when every clause it was given has one of the
\* categories risk, data_usage, obligation, general; a clause of another
\* category makes it raise, and is never passed over silently.
C18_MalformedClauseRaises ==
    ToolAnalysed =>
        \A i \in 1..Len(tool.extracted_clauses) :
            tool.extracted_clauses[i].type \in ClauseCategories

(***************************************************************************)
(* Properties of report assembly by ReportGenerationTool                   *)
(***************************************************************************)
\* s is a decimal number: digits, or digits "." digits
IsNumber(s) ==
    \/ IsDigits(s)
    \/ \E dot \in 2..(Len(s) - 1) :
           /\ CharAt(s, dot) = "."
           /\ IsDigits(SubSeq(s, 1, dot - 1))
           /\ IsDigits(SubSeq(s, dot + 1, Len(s)))

\* some step's duration without its unit is not a number
SomeDurationUnparsable(steps) ==
    \E i \in 1..Len(steps) : ~IsNumber(remove(steps[i].duration, "s"))

\* C19: ReportGenerationTool.run raises ToolHardError and returns no report
\* exactly when some ProcessingStep's duration, its unit removed, is not a
\* number; a report is returned only when every duration is a number, so an
\* unparsable duration is never counted as zero in total_processing_time.
C19_UnparsableDurationRaises ==
    /\ tool_pc = "done" => ~SomeDurationUnparsable(tool.steps)
    /\ tool_pc = "ToolHardError" => SomeDurationUnparsable(tool.steps)
    /\ tool_pc # "done" => tool.final_report = None

C19_Witness ==
    /\ tool_pc = "ToolHardError"
    /\ \E i \in 1..Len(tool.steps) : tool.steps[i].duration = "fast"
    /\ tool.final_report = None

(***************************************************************************)
(* Properties of the provider call                                         *)
(***************************************************************************)
\* C14: within one run_pactguard_workflow request the provider's chat
\* completion is invoked at most once whatever its outcome; once it has raised
\* or returned, no step of the request invokes it again, and the fallback
\* generator answers after a failure.
C14_ProviderCalledAtMostOnce ==
    /\ wf.calls <= 1
    /\ wf.pc \in {"idle", "token", "call"} => wf.calls = 0
    /\ (wf.pc = "returned" /\ wf.failure # None) => wf.source = "demo"

C14_Witness ==
    /\ wf.pc = "returned"
    /\ wf.calls = 1
    /\ wf.failure = "client raised"
    /\ wf.source = "demo"

(***************************************************************************)
(* Properties of the entry points                                          *)
(***************************************************************************)
\* the handler has answered with a report
Answered == api.pc = "done" /\ api.status_code = 200

AssemblyLineFields ==
    {"summary", "obligations", "rights_and_data_usage", "red_flags", "ai_assembly_line"}

WorkflowFields == {"summary", "redFlags", "obligations", "rightsAndDataUsage"}

\* the report has the five fields of schemas.py's AnalysisResult
HasAssemblyLineFields(report) ==
    /\ DOMAIN report = AssemblyLineFields
    /\ DOMAIN report.ai_assembly_line = {"processing_steps", "total_processing_time"}

PortiaReportFields ==
    {"id", "timestamp", "document_type", "risk_score", "executive_summary", "legal_concerns",
     "business_impact", "recommendations", "portia_integration"}

\* C15: for a non-empty text main_portia's analyze_document answers with an
\* AnalysisReport, never with an error, whatever the provider did: client
\* absent, client not initialized, run_legal_analysis returning status error
\* after the call raised, or success.
C15_PortiaAlwaysAnswers ==
    (entry = "main_portia" /\ api.pc = "done" /\ ~Blank(api.text)) =>
        /\ api.status_code = 200
        /\ DOMAIN api.body = PortiaReportFields
        /\ api.body.risk_score.level \in 1..10
        /\ Len(api.body.legal_concerns) >= 1

C15_Witness ==
    /\ entry = "main_portia"
    /\ Answered
    /\ ~Blank(api.text)
    /\ api.source = "portia_fallback"
    /\ api.body.portia_integration.status = "partial"

\* the value of the report's status or provenance field, None without one
Provenance(report) ==
    IF "portia_integration" \in DOMAIN report THEN report.portia_integration.status
    ELSE IF "ai_assembly_line" \in DOMAIN report THEN None
    ELSE LET fields == DOMAIN report.v \cap {"status", "source", "provenance"}
         IN  IF fields = {} THEN None ELSE report.v[CHOOSE f \in fields : TRUE].v

\* C16: every report of a fallback path (generate_demo_analysis after a
\* provider failure, main_portia's analyze_document without a successful
\* client) carries a status or provenance field, and its value is none a
\* provider-backed report has.
C16_FallbackReportsAreMarked ==
    /\ (Answered /\ api.source \in {"demo", "portia_fallback"}) =>
           Provenance(api.body) \notin {None, "success"}
    /\ (Answered /\ api.source \in {"provider", "portia"}) =>
           Provenance(api.body) \in {None, "success"}

\* C17: at every /analyze entry point a request whose text is empty or only
\* whitespace is answered 400 "Document text is required" and its text never
\* reaches the pipeline or the workflow.
C17_BlankTextRejected ==
    (api.pc \in {"core", "done"} /\ Blank(api.text)) =>
        /\ api.pc = "done"
        /\ api.status_code = 400
        /\ api.detail = "Document text is required"

(***************************************************************************)
(* Properties of clause extraction and risk analysis                       *)
(***************************************************************************)
\* clause extraction has returned in the request, in the tool run, in progress
AsmExtracted == pc \in {"analysis", "translation", "report"}

ToolExtracted == tool_pc \in {"analysis", "translation", "report"}

\* C21: clause extraction applied to the empty text returns the empty clause
\* sequence, in ClauseExtractionTool._extract_clauses as in
\* PactGuardAssemblyLine._clause_extraction.
C21_EmptyTextNoClauses ==
    /\ (AsmExtracted /\ Len(req.normalized_text) = 0) => Len(req.extracted_clauses) = 0
    /\ (ToolExtracted /\ Len(tool.normalized_text) = 0) => Len(tool.extracted_clauses) = 0

\* _risk_analysis has returned in the request in progress
AsmAnalysed == pc \in {"translation", "report"}

Ids(items) == [i \in 1..Len(items) |-> items[i].id]

\* the three collections hold one finding for each clause of their category,
\* in clause order and under the clause's id, and nothing else
PartitionOf(clauses, obligations, rights_and_data_usage, red_flags) ==
    LET OfType(type) == {i \in 1..Len(clauses) : clauses[i].type = type}
        IdsOfType(type) == Ids(SelectSeq(clauses, LAMBDA c : c.type = type))
        found == {obligations[i].id : i \in 1..Len(obligations)}
                 \cup {rights_and_data_usage[i].id : i \in 1..Len(rights_and_data_usage)}
                 \cup {red_flags[i].id : i \in 1..Len(red_flags)}
    IN  /\ Ids(obligations) = IdsOfType("obligation")
        /\ Ids(rights_and_data_usage) = IdsOfType("data_usage")
        /\ Ids(red_flags) = IdsOfType("risk")
        /\ \A i \in OfType("general") : clauses[i].id \notin found
        /\ found \subseteq {clauses[i].id : i \in 1..Len(clauses)}

\* C22: risk analysis partitions the clauses of its own run: each obligation,
\* data_usage and risk clause yields exactly one finding with the clause's id,
\* in obligations, rights_and_data_usage and red_flags respectively and in
\* clause order; a general clause is in no collection; no finding has an id
\* other than that of a clause extracted in the same run. This holds of the
\* result of _risk_analysis, of the report returned to the caller and of the
\* result of RiskAnalysisTool.run.
C22_FindingsPartitionClauses ==
    /\ AsmAnalysed =>
           PartitionOf(req.extracted_clauses, req.obligations, req.rights_data_usage,
                       req.red_flags)
    /\ Returned =>
           PartitionOf(req.extracted_clauses, response.obligations,
                       response.rights_and_data_usage, response.red_flags)
    /\ ToolAnalysed =>
           PartitionOf(tool.extracted_clauses, tool.risk.obligations,
                       tool.risk.rights_and_data_usage, tool.risk.red_flags)

\* a second request, after another one, returned with a clause of each of
\* the four categories
C22_Witness ==
    /\ Returned
    /\ requests >= 2
    /\ req.text = MixedScenario
    /\ Len(req.extracted_clauses) = 4
    /\ Len(response.obligations) = 1
    /\ Len(response.rights_and_data_usage) = 1
    /\ Len(response.red_flags) = 1
    /\ \E i \in 1..4 : req.extracted_clauses[i].type = "general"

(***************************************************************************)
(* Termination of run_pactguard_workflow                                   *)
(***************************************************************************)
\* C23: the provider call is bounded by a timeout: a request waiting in
\* client.chat.completions.create eventually returns a report, whether or not
\* the provider ever answers.
C23_ProviderCallTimesOut == (wf.pc = "call") ~> (wf.pc = "returned")

\* the steps of the request itself do finish: from the except branch the
\* fallback report is returned
OwnStepsFinish == (wf.pc = "except") ~> (wf.pc = "returned")

(***************************************************************************)
(* Determinism of the fallback generator                                   *)
(***************************************************************************)
\* C24: generate_demo_analysis is deterministic: the report a call returned
\* for a text is the report of any other call on the same text, whatever
\* random.randint draws in it: documentType, overallRiskLevel, keyConcerns,
\* recommendation and the findings are equal.
C24_FallbackIsDeterministic ==
    (wf.pc = "returned" /\ wf.source = "demo") =>
        \A risk_score \in DemoDocType(wf.text).lo..DemoDocType(wf.text).hi :
            generate_demo_analysis(wf.text, risk_score) = wf.report

(***************************************************************************)
(* Overall risk                                                            *)
(***************************************************************************)
\* C25: _risk_analysis derives the overall risk by Policy B: High exactly
\* when red_flags is non-empty, Medium exactly when red_flags is empty and
\* obligations or rights_and_data_usage has more than 3 entries, Low otherwise;
\* and the riskLevel of the summary is this value.
C25_PolicyB ==
    /\ (AsmAnalysed \/ Returned) =>
           /\ req.overall_risk = HIGH <=> Len(req.red_flags) > 0
           /\ req.overall_risk = MEDIUM <=>
                  /\ Len(req.red_flags) = 0
                  /\ Len(req.obligations) > 3 \/ Len(req.rights_data_usage) > 3
           /\ req.overall_risk \in {HIGH, MEDIUM, LOW}
    /\ pc = "report" => req.summary.riskLevel = req.overall_risk
    /\ Returned =>
           /\ response.summary.riskLevel = req.overall_risk
           /\ response.red_flags = req.red_flags
           /\ response.obligations = req.obligations
           /\ response.rights_and_data_usage = req.rights_data_usage

\* exactly 3 obligations and 3 rights without a red flag: Low
C25_Witness ==
    /\ Returned
    /\ Len(response.red_flags) = 0
    /\ Len(response.obligations) = 3
    /\ Len(response.rights_and_data_usage) = 3
    /\ response.summary.riskLevel = LOW

(***************************************************************************)
(* Clause categories                                                       *)
(***************************************************************************)
\* the categories in their priority, highest first
CategoryPriority == <<"risk", "data_usage", "obligation">>

\* every clause has the category of the highest-priority keyword set with a
\* keyword in its text, general when no set has one; sets[k] is the keyword
\* set of CategoryPriority[k]
HighestPriorityDecides(clauses, sets) ==
    \A i \in 1..Len(clauses) :
        LET present == {k \in 1..Len(sets) : AnyIn(sets[k], lower(clauses[i].text))}
        IN  IF present = {} THEN clauses[i].type = "general"
            ELSE \E k \in present :
                    /\ \A j \in present : k <= j
                    /\ clauses[i].type = CategoryPriority[k]

\* C26: each sentence unit is categorised by first match in the priority risk,
\* data_usage, obligation, else general: a unit with keywords of several sets
\* gets the category of the highest-priority set present, in
\* PactGuardAssemblyLine._clause_extraction and in
\* ClauseExtractionTool._extract_clauses, each with its own keyword sets.
C26_HighestPriorityCategory ==
    /\ AsmExtracted =>
           HighestPriorityDecides(req.extracted_clauses,
                                  <<risk_keywords, data_keywords, obligation_keywords>>)
    /\ ToolExtracted =>
           HighestPriorityDecides(tool.extracted_clauses,
                                  [k \in 1..Len(tool_keywords) |-> tool_keywords[k].kws])
    /\ [k \in 1..Len(tool_keywords) |-> tool_keywords[k].type] = CategoryPriority

\* a unit with "terminate" and "must" is risk, one with "collect" and "shall"
\* is data_usage
C26_Witness ==
    /\ AsmExtracted
    /\ Len(req.extracted_clauses) >= 2
    /\ Contains(lower(req.extracted_clauses[1].text), "terminate")
    /\ Contains(lower(req.extracted_clauses[1].text), "must")
    /\ req.extracted_clauses[1].type = "risk"
    /\ Contains(lower(req.extracted_clauses[2].text), "collect")
    /\ Contains(lower(req.extracted_clauses[2].text), "shall")
    /\ req.extracted_clauses[2].type = "data_usage"

(***************************************************************************)
(* The cap and the minimum length of the assembly line's clauses           *)
(***************************************************************************)
\* the positions among the first 15 units of the split text whose unit has
\* at least 20 characters once stripped
ExaminedLongUnits(units) ==
    {i \in 1..Len(units) : i <= AsmClauseCap /\ Len(strip(units[i])) >= AsmMinSentenceLen}

\* C27: in _clause_extraction the cap of 15 is applied to the sentence units
\* before the minimum-length filter: the clauses are those of the first 15
\* units that have at least 20 characters, one each and in their order; a
\* unit at position 16 or later yields no clause even when fewer than 15
\* clauses result; every clause has at least 20 characters.
C27_CapBeforeLengthFilter ==
    AsmExtracted =>
        LET units == split(req.normalized_text, ". ")
            clauses == req.extracted_clauses
        IN  /\ Len(clauses) = Cardinality(ExaminedLongUnits(units))
            /\ \A j \in 1..Len(clauses) :
                   /\ Len(clauses[j].text) >= AsmMinSentenceLen
                   /\ \E i \in ExaminedLongUnits(units) :
                          /\ clauses[j].text = strip(units[i])
                          /\ Cardinality({h \in ExaminedLongUnits(units) : h <= i}) = j

\* the unit at position 16 is long enough, and only one clause results
C27_Witness ==
    /\ AsmExtracted
    /\ LET units == split(req.normalized_text, ". ")
       IN  /\ Len(units) > AsmClauseCap
           /\ Len(strip(units[AsmClauseCap + 1])) >= AsmMinSentenceLen
    /\ Len(req.extracted_clauses) = 1

\* C28: RiskAnalysisTool never reports the overall risk Medium: it is High
\* when red_flags is non-empty and Low otherwise, whatever the numbers of
\* obligations and rights.
C28_ToolRiskHighOrLow ==
    (ToolAnalysed /\ tool_pc # "ToolHardError") =>
        /\ tool.risk.overall_risk # MEDIUM
        /\ tool.risk.overall_risk = (IF Len(tool.risk.red_flags) > 0 THEN HIGH ELSE LOW)

\* more than 3 obligations without a red flag: Low
C28_Witness ==
    /\ ToolAnalysed
    /\ Len(tool.risk.red_flags) = 0
    /\ Len(tool.risk.obligations) > 3
    /\ tool.risk.overall_risk = LOW

(***************************************************************************)
(* Properties of parse_portia_analysis                                     *)
(***************************************************************************)
\* the label and the colour the claim gives a level
RiskLabel(level) ==
    IF level >= 8 THEN "Critical"
    ELSE IF level = 7 THEN "High"
    ELSE IF level = 6 THEN "Medium-High"
    ELSE IF level \in {4, 5} THEN "Medium"
    ELSE "Low"

RiskColor(label) ==
    CASE label = "Critical" -> "#dc2626"
      [] label = "High" -> "#ea580c"
      [] label = "Medium-High" -> "#d97706"
      [] label = "Medium" -> "#ca8a04"
      [] OTHER -> "#16a34a"

\* C29: the risk_score of every report of parse_portia_analysis has a level
\* in 1..10, and its label and colour are a function of the level alone: 8 or
\* more Critical, 7 High, 6 Medium-High, 4 or 5 Medium, below 4 Low.
C29_RiskLevelInRange ==
    (entry = "main_portia" /\ Answered) =>
        /\ api.body.risk_score.level \in 1..10
        /\ api.body.risk_score.label = RiskLabel(api.body.risk_score.level)
        /\ api.body.risk_score.color = RiskColor(api.body.risk_score.label)

\* a score of 12 in the analysis text, clamped to 10
C29_Witness ==
    /\ entry = "main_portia"
    /\ Answered
    /\ api.source = "portia"
    /\ api.body.risk_score.level = 10
    /\ api.body.risk_score.label = "Critical"
    /\ Contains(api.body.executive_summary, "Risk score: 12")

\* the handler answered a non-empty text from its branch for a client that
\* is absent or not initialized
FallbackAnswered ==
    /\ entry = "main_portia"
    /\ Answered
    /\ ~Blank(api.text)
    /\ api.body.portia_integration.status = "fallback"

\* the report of that branch, id and timestamp aside
FallbackReport ==
    [document_type |-> "Legal Agreement",
     risk_score |-> [level |-> 3, label |-> "Low", color |-> "#16a34a"],
     executive_summary |->
         "Document analysis completed using Portia AI. Risk level: Low. Key findings from AI analysis: Legal document analysis completed with fallback processing. Portia integration unavailable....",
     legal_concerns |->
         <<[id |-> "general-risk-1", title |-> "Contract Analysis Required",
            severity |-> "medium", category |-> "legal"]>>,
     business_impact |-> <<"Financial Risk", "Legal Compliance">>,
     recommendations |-> <<"rec-1", "rec-2">>,
     portia_integration |->
         [status |-> "fallback", plan_run_id |-> Null, llm_provider |-> "Google AI (Gemini)",
          analysis_timestamp |-> Null, portia_used |-> TRUE, billing_generated |-> FALSE]]

\* C30: when the Portia client is absent or not initialized the report of
\* main_portia's analyze_document does not depend on the document text: for
\* every non-empty text it is one and the same report, id and timestamp
\* aside, so any two texts give equal risk_score, executive_summary,
\* legal_concerns, business_impact, recommendations and portia_integration.
C30_FallbackReportIgnoresText ==
    FallbackAnswered =>
        \A f \in DOMAIN FallbackReport : api.body[f] = FallbackReport[f]

\* a second request, with the neutral document, answered from that branch
C30_Witness ==
    /\ FallbackAnswered
    /\ api.served >= 2
    /\ api.text = NeutralScenario
    /\ api.body.risk_score.label = "Low"

=============================================================================
